---- MODULE Spec2Model ----
(***************************************************************************)
(* Model of pkg/config (Load and its helpers) and pkg/tmpl                 *)
(* (ExpandTemplate and its template functions).                            *)
(*                                                                         *)
(* Strings of the program (configuration paths, environment variable      *)
(* names and values, flag names) are sequences of one-character strings,   *)
(* so that upper-casing, replacement, concatenation and number parsing are *)
(* computed.                                                               *)
(***************************************************************************)
EXTENDS Integers, Sequences, FiniteSets, TLC

(***************************************************************************)
(* Bounds of the model.                                                    *)
(***************************************************************************)
\* longest list of candidate configuration files passed to WithConfigPaths
MaxCands == 2
\* largest number of environment variables that are set (to any value)
MaxEnvSet == 2
\* largest number of flags the user sets on the command line
MaxFlagsSet == 2

\* the most operands a generated call of coalesce has
MaxArgs == 3

\* the most fields a generated configuration type has at its top level
MaxFields == 2

(***************************************************************************)
(* Strings as character sequences.                                         *)
(***************************************************************************)
\* strings.ToUpper on one character
UpperChar(c) ==
    CASE c = "a" -> "A" [] c = "b" -> "B" [] c = "c" -> "C" [] c = "e" -> "E"
      [] c = "n" -> "N" [] c = "p" -> "P" [] c = "s" -> "S" [] c = "t" -> "T"
      [] c = "x" -> "X" [] c = "y" -> "Y" [] c = "z" -> "Z"
      [] OTHER -> c

\* strings.ToUpper
ToUpper(s) == [i \in 1..Len(s) |-> UpperChar(s[i])]

\* strings.ReplaceAll(s, old, new) for one-character old and new
ReplaceAll(s, old, new) == [i \in 1..Len(s) |-> IF s[i] = old THEN new ELSE s[i]]

\* the replacer without the hyphen
ReplaceDotOnly(key) == [i \in 1..Len(key) |-> IF key[i] = "." THEN "_" ELSE key[i]]

\* strings.NewReplacer(".", "_", "-", "_").Replace(key)
ReplaceDotHyphen(key) ==
    [i \in 1..Len(key) |-> IF key[i] = "." \/ key[i] = "-" THEN "_" ELSE key[i]]

LowerChar(c) ==
    CASE c = "A" -> "a" [] c = "B" -> "b" [] c = "C" -> "c" [] c = "E" -> "e"
      [] c = "N" -> "n" [] c = "P" -> "p" [] c = "S" -> "s" [] c = "T" -> "t"
      [] c = "X" -> "x" [] c = "Y" -> "y" [] c = "Z" -> "z"
      [] OTHER -> c

\* strings.ToLower
ToLower(s) == [i \in 1..Len(s) |-> LowerChar(s[i])]

\* strings.TrimPrefix(s, prefix)
TrimPrefix(s, prefix) ==
    IF Len(s) >= Len(prefix) /\ SubSeq(s, 1, Len(prefix)) = prefix
    THEN SubSeq(s, Len(prefix) + 1, Len(s))
    ELSE s

\* the decoder that lowers the name before it strips the prefix
envKeyDecoderLowerFirst(prefix, key) == ReplaceAll(TrimPrefix(ToLower(key), prefix), "_", ".")

\* envKeyDecoder(prefix)(key)
envKeyDecoder(prefix, key) == ReplaceAll(ToLower(TrimPrefix(key, prefix)), "_", ".")

\* the elements of a sequence
Range(s) == {s[i] : i \in 1..Len(s)}

(***************************************************************************)
(* Configuration structure types (reflect.Type).  A type or field is a     *)
(* record: tag is the koanf tag (<<>> when the field has none), kind is    *)
(* the Go type ("ptr" for a pointer, whose pointee kind is elem; "slice"   *)
(* and "map" carry the element kind in elem, "map" the key kind in key),   *)
(* fields are the fields of a struct (or of the pointed-to struct).        *)
(***************************************************************************)
Leaf(tag, kind) == [tag |-> tag, kind |-> kind, key |-> "", elem |-> "", fields |-> <<>>]

Struct(tag, fields) == [tag |-> tag, kind |-> "struct", key |-> "", elem |-> "", fields |-> fields]

\* reflect.Type.Kind(): time.Time is a struct, time.Duration an int64
GoKind(typ) ==
    CASE typ.kind = "time" -> "struct"
      [] typ.kind = "duration" -> "int64"
      [] OTHER -> typ.kind

\* reflect.Type.Elem() of a pointer type
PtrElem(typ) == [typ EXCEPT !.kind = typ.elem, !.elem = ""]

\* the loop over typ.Field(i) of collectKoanfKeysRecursive, from field i on
RECURSIVE collectKoanfKeysFields(_, _, _)
collectKoanfKeysFields(fields, i, prefix) ==
    IF i > Len(fields) THEN <<>>
    ELSE LET field == fields[i]
             koanfKey == field.tag
             fullKey == IF prefix # <<>> THEN prefix \o <<".">> \o koanfKey ELSE koanfKey
             rest == collectKoanfKeysFields(fields, i + 1, prefix)
         IN  IF koanfKey = <<>> THEN rest
             ELSE IF GoKind(field) = "struct" /\ field.kind # "duration" /\ field.kind # "time"
                  THEN \* collectKoanfKeysRecursive(field.Type, fullKey, keys): a struct
                       \* type is no pointer, so the callee goes straight to its fields
                       collectKoanfKeysFields(field.fields, 1, fullKey) \o rest
                  ELSE <<fullKey>> \o rest

\* collectKoanfKeysRecursive(typ, prefix, keys): the keys it appends
collectKoanfKeysRecursive(typ, prefix) ==
    LET t == IF typ.kind = "ptr" THEN PtrElem(typ) ELSE typ
    IN  IF GoKind(t) # "struct" THEN <<>>
        ELSE collectKoanfKeysFields(t.fields, 1, prefix)

\* a value of a configuration type: its type and what its fields hold ("zero"
\* for the zero value, with nil pointers; "set" for fields that hold values)
Value(typ, content) == [typ |-> typ, content |-> content]

\* reflect.TypeOf(defaultConfig)
TypeOf(v) == v.typ

\* the keys of the fields that hold a value
collectKoanfKeysOfSetFields(defaultConfig) ==
    IF defaultConfig.content = "zero" THEN <<>>
    ELSE collectKoanfKeysRecursive(TypeOf(defaultConfig), <<>>)

\* collectKoanfKeys(defaultConfig)
collectKoanfKeys(defaultConfig) == collectKoanfKeysRecursive(TypeOf(defaultConfig), <<>>)

\* the bindings in which the first key under a name stands
RECURSIVE generateEnvBindingsKeepingFirst(_, _, _, _)
generateEnvBindingsKeepingFirst(prefix, koanfKeys, i, bindings) ==
    IF i > Len(koanfKeys) THEN bindings
    ELSE LET key == koanfKeys[i]
             envKey == ToUpper(ReplaceDotHyphen(key))
             name == prefix \o envKey
         IN  generateEnvBindingsKeepingFirst(prefix, koanfKeys, i + 1,
                 [e \in DOMAIN bindings \cup {name} |->
                     IF e \in DOMAIN bindings THEN bindings[e] ELSE key])

\* generateEnvBindings(prefix, koanfKeys): a map from environment name to key,
\* filled in the order of koanfKeys (a later key replaces an earlier one under
\* the same name)
RECURSIVE generateEnvBindingsFrom(_, _, _, _)
generateEnvBindingsFrom(prefix, koanfKeys, i, bindings) ==
    IF i > Len(koanfKeys) THEN bindings
    ELSE LET key == koanfKeys[i]
             envKey == ToUpper(ReplaceDotHyphen(key))
             name == prefix \o envKey
         IN  generateEnvBindingsFrom(prefix, koanfKeys, i + 1,
                 [e \in DOMAIN bindings \cup {name} |->
                     IF e = name THEN key ELSE bindings[e]])

generateEnvBindings(prefix, koanfKeys) ==
    generateEnvBindingsFrom(prefix, koanfKeys, 1, <<>>)

(***************************************************************************)
(* Values held by the key-value store (koanf) and by the loaded structure. *)
(***************************************************************************)
Str(s) == [k |-> "str", s |-> s, i |-> 0]

IntV(i) == [k |-> "int", s |-> <<>>, i |-> i]

\* an empty mapping (the value of "e: {}")
EmptyMapV == [k |-> "map", s |-> <<>>, i |-> 0]

\* the marker of a failed conversion
DecodeError == [k |-> "error", s |-> <<>>, i |-> 0]

IsDigit(c) == c \in {"0", "1", "2", "3", "4", "5", "6", "7", "8", "9"}

DigitVal(c) ==
    CASE c = "0" -> 0 [] c = "1" -> 1 [] c = "2" -> 2 [] c = "3" -> 3 [] c = "4" -> 4
      [] c = "5" -> 5 [] c = "6" -> 6 [] c = "7" -> 7 [] c = "8" -> 8 [] OTHER -> 9

DigitChar(d) ==
    CASE d = 0 -> "0" [] d = 1 -> "1" [] d = 2 -> "2" [] d = 3 -> "3" [] d = 4 -> "4"
      [] d = 5 -> "5" [] d = 6 -> "6" [] d = 7 -> "7" [] d = 8 -> "8" [] OTHER -> "9"

\* strconv.ParseInt on a string of decimal digits
RECURSIVE ParseDigits(_, _, _)
ParseDigits(s, i, acc) ==
    IF i > Len(s) THEN acc ELSE ParseDigits(s, i + 1, acc * 10 + DigitVal(s[i]))

\* strconv.Itoa for a natural number
RECURSIVE Itoa(_)
Itoa(n) == IF n < 10 THEN <<DigitChar(n)>> ELSE Itoa(n \div 10) \o <<DigitChar(n % 10)>>

\* the decoding that takes any string for an integer field
DecodeLenient(kind, v) ==
    CASE kind = "string" /\ v.k = "str" -> v
      [] kind = "string" /\ v.k = "int" -> Str(Itoa(v.i))
      [] kind = "int" /\ v.k = "int" -> v
      [] OTHER -> IntV(0)

\* the weakly typed decoding koanf's Unmarshal applies to one leaf (mapstructure
\* with WeaklyTypedInput): a number is accepted for a string field, a string
\* of digits (or the empty string) for an integer field
Decode(kind, v) ==
    CASE kind = "string" /\ v.k = "str" -> v
      [] kind = "string" /\ v.k = "int" -> Str(Itoa(v.i))
      [] kind = "int" /\ v.k = "int" -> v
      [] kind = "int" /\ v.k = "str" ->
            IF v.s = <<>> THEN IntV(0)
            ELSE IF \A j \in 1..Len(v.s) : IsDigit(v.s[j])
                 THEN IntV(ParseDigits(v.s, 1, 0))
                 ELSE DecodeError
      [] OTHER -> DecodeError

(***************************************************************************)
(* The key-value store: a map from dotted path to value.                   *)
(***************************************************************************)
\* q is p or lies under p (p.q')
Under(p, q) ==
    \/ q = p
    \/ Len(q) > Len(p) + 1 /\ SubSeq(q, 1, Len(p)) = p /\ q[Len(p) + 1] = "."

\* k.Set(path, val)
Set(k, path, val) == [q \in DOMAIN k \cup {path} |-> IF q = path THEN val ELSE k[q]]

\* a load that replaces the store by the loaded map
MergeReplacing(k, data) == data

\* k.Load(provider): merge a map of values into the store
Merge(k, data) ==
    [q \in DOMAIN k \cup DOMAIN data |-> IF q \in DOMAIN data THEN data[q] ELSE k[q]]

\* k.Delete(key): drop the key and everything under it
Delete(k, key) == [q \in {r \in DOMAIN k : ~Under(key, r)} |-> k[q]]

\* the part of p after the key and its dot
ChildName(key, p) == SubSeq(p, Len(key) + 2, Len(p))

\* k.StringMap(key): the string-to-string map at key; empty when there is no
\* map at key or one of its values is not a string
StringMap(k, key) ==
    LET below == {p \in DOMAIN k : Under(key, p) /\ p # key}
        flat == \A p \in below : k[p].k = "str" /\ "." \notin Range(ChildName(key, p))
    IN  IF key \in DOMAIN k \/ ~flat THEN <<>>
        ELSE [e \in {ChildName(key, p) : p \in below} |-> k[key \o <<".">> \o e].s]

(***************************************************************************)
(* The configuration structure the model loads:                            *)
(*   type Config struct {                                                  *)
(*       N string `koanf:"n"`                                              *)
(*       P int    `koanf:"p"`                                              *)
(*       C struct { SP string `koanf:"s-p"` } `koanf:"c"`                  *)
(*   }                                                                     *)
(* and its default value.                                                  *)
(***************************************************************************)
P_n == <<"n">>

P_p == <<"p">>

P_csp == <<"c", ".", "s", "-", "p">>

CfgT ==
    Struct(<<>>, << Leaf(<<"n">>, "string"),
                    Leaf(<<"p">>, "int"),
                    Struct(<<"c">>, << Leaf(<<"s", "-", "p">>, "string") >>) >>)

\* structs.Provider(defaultConfig, "koanf"): the default value as a map
DefaultCfg == (P_n :> Str(<<"d">>)) @@ (P_p :> IntV(8)) @@ (P_csp :> Str(<<"d">>))

(***************************************************************************)
(* The process environment.                                                *)
(***************************************************************************)
\* the value of a variable that is not set
NoVar == <<"<unset>">>

E_X == <<"X">>

E_Y == <<"Y">>

E_TN == <<"T", "_", "N">>

E_TP == <<"T", "_", "P">>

E_TCSP == <<"T", "_", "C", "_", "S", "_", "P">>

EnvNames == {E_X, E_Y, E_TN, E_TP, E_TCSP}

\* the values each variable takes when it is set
EnvValues(e) ==
    CASE e = E_X -> {<<>>, <<"x">>}
      [] e = E_Y -> {<<"y">>}
      [] e = E_TN -> {<<"t">>}
      [] e = E_TP -> {<<"7">>, <<"z">>}
      [] OTHER -> {<<"s">>}

\* os.LookupEnv: is the variable set
IsSetEnv(environ, key) == key \in DOMAIN environ /\ environ[key] # NoVar

\* os.Getenv(key): the empty string for a variable that is not set
Getenv(environ, key) == IF IsSetEnv(environ, key) THEN environ[key] ELSE <<>>

(***************************************************************************)
(* Templates (package tmpl).  The text of a template is a sequence of       *)
(* lexemes: the delimiters, parentheses, the pipe, words, quoted strings,   *)
(* field references, and plain text.  Parse builds the tree text/template   *)
(* builds, Execute walks it.                                                *)
(***************************************************************************)
LeftDelim == "{{"

RightDelim == "}}"

\* the names of var templateFuncs
templateFuncs == {"env", "default", "coalesce"}

\* the quoted strings that occur in the templates and what each denotes
StringLits ==
    ("\"\"" :> <<>>) @@ ("\"a\"" :> <<"a">>) @@ ("\"b\"" :> <<"b">>)
    @@ ("\"X\"" :> E_X) @@ ("\"Y\"" :> E_Y) @@ ("\"M\"" :> <<"M">>)

\* the field references (.NAME) that occur and the name each refers to
FieldRefs == (".X" :> E_X) @@ (".Y" :> E_Y) @@ (".M" :> <<"M">>)

\* a node of the parse tree
Node(t, s, args) == [t |-> t, s |-> s, args |-> args]

\* the two results of a parsing step: a node and the place behind it, or an error
POk(node, i) == [node |-> node, i |-> i, err |-> ""]

PErr(e, i) == [node |-> Node("none", <<>>, <<>>), i |-> i, err |-> e]

\* parse.checkPipeline: only the first command of a pipeline may start with
\* an operand that cannot be executed
checkPipeline(cmds) ==
    IF \E j \in 2..Len(cmds) : cmds[j].args[1].t = "lit"
    THEN "non executable command in pipeline stage"
    ELSE ""

RECURSIVE parseOperand(_, _), parseCommand(_, _, _), parsePipeline(_, _, _)

\* one operand of a command, at lexeme i
parseOperand(t, i) ==
    IF i > Len(t) \/ t[i] = LeftDelim THEN PErr("unclosed action", i)
    ELSE IF t[i] \in DOMAIN StringLits THEN POk(Node("lit", StringLits[t[i]], <<>>), i + 1)
    ELSE IF t[i] \in DOMAIN FieldRefs THEN POk(Node("field", FieldRefs[t[i]], <<>>), i + 1)
    ELSE IF t[i] \in templateFuncs THEN POk(Node("ident", <<t[i]>>, <<>>), i + 1)
    ELSE IF t[i] = "("
         THEN LET p == parsePipeline(t, i + 1, <<>>)
              IN  IF p.err # "" THEN p
                  ELSE IF t[p.i] # ")" THEN PErr("unclosed left paren", p.i)
                  ELSE POk(p.node, p.i + 1)
    ELSE PErr("function not defined", i)

\* the operands of one command, up to a pipe, a right delimiter or a paren
parseCommand(t, i, acc) ==
    IF i > Len(t) \/ t[i] = LeftDelim THEN PErr("unclosed action", i)
    ELSE IF t[i] \in {"|", RightDelim, ")"}
         THEN IF acc = <<>> THEN PErr("missing value for command", i)
              ELSE POk(Node("cmd", <<>>, acc), i)
    ELSE LET o == parseOperand(t, i)
         IN  IF o.err # "" THEN o ELSE parseCommand(t, o.i, Append(acc, o.node))

\* the commands of a pipeline, separated by pipes
parsePipeline(t, i, acc) ==
    LET c == parseCommand(t, i, <<>>)
    IN  IF c.err # "" THEN c
        ELSE IF t[c.i] = "|" THEN parsePipeline(t, c.i + 1, Append(acc, c.node))
        ELSE LET cmds == Append(acc, c.node)
             IN  IF checkPipeline(cmds) # "" THEN PErr(checkPipeline(cmds), c.i)
                 ELSE POk(Node("pipe", <<>>, cmds), c.i)

\* an action, from the lexeme behind its left delimiter
parseAction(t, i) ==
    LET p == parsePipeline(t, i, <<>>)
    IN  IF p.err # "" THEN p
        ELSE IF t[p.i] = ")" THEN PErr("unexpected right paren", p.i)
        ELSE POk(p.node, p.i + 1)

RECURSIVE parseText(_, _, _)

parseText(t, i, acc) ==
    IF i > Len(t) THEN [tree |-> acc, err |-> ""]
    ELSE IF t[i] = LeftDelim
         THEN LET a == parseAction(t, i + 1)
              IN  IF a.err # "" THEN [tree |-> <<>>, err |-> a.err]
                  ELSE parseText(t, a.i, Append(acc, a.node))
    ELSE parseText(t, i + 1, Append(acc, Node("text", <<t[i]>>, <<>>)))

\* template.New("config").Funcs(templateFuncs).Parse(text)
Parse(t) == parseText(t, 1, <<>>)

\* the values of an execution: a string, the untyped nil, an error; Missing
\* is the value in front of a pipeline's first command
StrVal(s) == [v |-> "str", s |-> s, e |-> ""]

NilVal == [v |-> "nil", s |-> <<>>, e |-> ""]

ErrVal(e) == [v |-> "err", s |-> <<>>, e |-> e]

Missing == [v |-> "missing", s |-> <<>>, e |-> ""]

\* a fallback is returned for an unset variable only
envFuncUnsetOnly(environ, key, defaultVal) ==
    IF IsSetEnv(environ, key) THEN environ[key]
    ELSE IF Len(defaultVal) > 0 THEN defaultVal[1]
    ELSE <<>>

\* envFunc(key string, defaultVal ...string) string
envFunc(environ, key, defaultVal) ==
    IF Getenv(environ, key) # <<>> THEN Getenv(environ, key)
    ELSE IF Len(defaultVal) > 0 THEN defaultVal[1]
    ELSE <<>>

\* the fallback replaces nil alone, an empty string is kept
defaultFuncNilOnly(defaultVal, value) == IF value = NilVal THEN defaultVal ELSE value

\* defaultFunc(defaultVal, value any) any
defaultFunc(defaultVal, value) ==
    IF value = NilVal THEN defaultVal
    ELSE IF value.v = "str" /\ value.s = <<>> THEN defaultVal
    ELSE value

\* the empty string stands for "nothing found"
coalesceFuncEmpty(values) ==
    LET full == {i \in 1..Len(values) : values[i] # NilVal /\ values[i] # StrVal(<<>>)}
    IN  IF full = {} THEN StrVal(<<>>)
        ELSE values[CHOOSE i \in full : \A j \in full : i <= j]

\* coalesceFunc(values ...any) any
coalesceFunc(values) ==
    LET full == {i \in 1..Len(values) :
                    ~(values[i] = NilVal) /\ ~(values[i].v = "str" /\ values[i].s = <<>>)}
    IN  IF full = {} THEN NilVal
        ELSE values[CHOOSE i \in full : \A j \in full : i <= j]

\* the variables set to the empty string are left out
newTemplateDataNonEmpty(environ) ==
    [e \in {x \in DOMAIN environ : environ[x] # NoVar /\ environ[x] # <<>>} |-> environ[e]]

\* newTemplateData(): every variable of the environment under its name
newTemplateData(environ) ==
    [e \in {x \in DOMAIN environ : environ[x] # NoVar} |-> environ[e]]

\* a field of the data map; a key the map lacks yields no value
evalField(data, name) == IF name \in DOMAIN data THEN StrVal(data[name]) ELSE NilVal

\* no value fits no parameter
validateTypeNoNil(v, typ) ==
    IF v.v = "nil" THEN ErrVal("invalid value; expected string") ELSE v

\* state.validateType: no value fits a parameter of type any and no other
validateType(v, typ) ==
    IF v.v = "nil" /\ typ # "any" THEN ErrVal("invalid value; expected string") ELSE v

\* the type of a function's parameters
ParamType(name) == IF name = "env" THEN "string" ELSE "any"

\* does the function take this number of arguments
ArityOK(name, n) ==
    CASE name = "env" -> n >= 1
      [] name = "default" -> n = 2
      [] OTHER -> TRUE

\* the call of a template function on evaluated arguments
callFunc(s, name, argv) ==
    CASE name = "env" ->
            StrVal(envFunc(s.env, argv[1].s, [i \in 1..(Len(argv) - 1) |-> argv[i + 1].s]))
      [] name = "default" -> defaultFunc(argv[1], argv[2])
      [] OTHER -> coalesceFunc(argv)

RECURSIVE evalArg(_, _, _), evalCall(_, _, _, _), evalCommand(_, _, _), evalCmds(_, _, _, _)

\* state.evalArg
evalArg(s, typ, n) ==
    validateType(
        CASE n.t = "lit" -> StrVal(n.s)
          [] n.t = "field" -> evalField(s.data, n.s)
          [] n.t = "pipe" -> evalCmds(s, n.args, 1, Missing)
          [] OTHER -> evalCall(s, n.s[1], <<>>, Missing),
        typ)

\* state.evalCall: the argument count, then the arguments in order, then
\* the call; final is the value piped in, passed as the last argument
evalCall(s, name, args, final) ==
    LET typ == ParamType(name)
        argv == [i \in 1..Len(args) |-> evalArg(s, typ, args[i])]
                \o (IF final = Missing THEN <<>> ELSE <<validateType(final, typ)>>)
        bad == {i \in 1..Len(argv) : argv[i].v = "err"}
    IN  IF ~ArityOK(name, Len(argv)) THEN ErrVal("wrong number of args")
        ELSE IF bad # {} THEN argv[CHOOSE i \in bad : \A j \in bad : i <= j]
        ELSE callFunc(s, name, argv)

\* state.evalCommand
evalCommand(s, cmd, final) ==
    LET first == cmd.args[1]
        hasArgs == Len(cmd.args) > 1 \/ final # Missing
    IN  CASE first.t = "ident" -> evalCall(s, first.s[1], Tail(cmd.args), final)
          [] first.t = "field" ->
                IF hasArgs THEN ErrVal("is not a method but has arguments")
                ELSE evalField(s.data, first.s)
          [] first.t = "pipe" ->
                IF hasArgs THEN ErrVal("can't give argument to non-function")
                ELSE evalCmds(s, first.args, 1, Missing)
          [] OTHER ->
                IF hasArgs THEN ErrVal("can't give argument to non-function")
                ELSE StrVal(first.s)

\* state.evalPipeline: each command receives the value of the one before
evalCmds(s, cmds, i, value) ==
    IF i > Len(cmds) THEN value
    ELSE LET v == evalCommand(s, cmds[i], value)
         IN  IF v.v = "err" THEN v ELSE evalCmds(s, cmds, i + 1, v)

\* printValue: what an action writes for its value
NoValue == <<"<no value>">>

printValue(v) == IF v.v = "str" THEN v.s ELSE NoValue

RECURSIVE walk(_, _, _, _)

walk(s, tree, i, buf) ==
    IF i > Len(tree) THEN [s |-> buf, err |-> ""]
    ELSE IF tree[i].t = "text" THEN walk(s, tree, i + 1, buf \o tree[i].s)
    ELSE LET v == evalCmds(s, tree[i].args, 1, Missing)
         IN  IF v.v = "err" THEN [s |-> <<>>, err |-> v.e]
             ELSE walk(s, tree, i + 1, buf \o printValue(v))

\* tmpl.Execute(&buf, data), with ExpandTemplate's handling of its error
Execute(tree, environ) ==
    walk([data |-> newTemplateData(environ), env |-> environ], tree, 1, <<>>)

\* ExpandTemplate(text string) (string, error)
ExpandTemplate(t, environ) ==
    LET p == Parse(t)
    IN  IF p.err # "" THEN [s |-> <<>>, err |-> p.err] ELSE Execute(p.tree, environ)

(***************************************************************************)
(* Configuration files.  A file is "missing", "bad" (it exists, its text   *)
(* is no YAML), or one of the contents below.  Values a file declares      *)
(* carry the file's tag, so that the file a value came from can be told.   *)
(***************************************************************************)
K_e == <<"e">>

CandName(i) == <<"f", DigitChar(i)>>

\* DefaultPaths() without an application name
DefaultPaths == << <<"config.yaml">>, <<"config/config.yaml">> >>

FileNames == {CandName(i) : i \in 1..MaxCands} \cup Range(DefaultPaths)

FileTag(path) == IF Len(path) = 2 THEN path[2] ELSE "0"

FileKinds == {"missing", "bad", "partial", "full", "badtmpl"}

\* the template action in the text of a "badtmpl" file: it lacks its right
\* delimiter; the file is n: '{{env "X"', which is YAML
UnclosedAction == <<LeftDelim, "env", "\"X\"">>

\* the template actions the text of a file holds
FileActions(kind) == IF kind = "badtmpl" THEN UnclosedAction ELSE <<>>

\* the parsed content of a file: "partial" declares n alone; "full" declares
\* n, p and the section e that binds variable Y to n; "badtmpl" declares n
\* as the text of its action; "nonstring" declares n and the section e with
\* a number as the value of Y; "emptysect" declares n and the section e as an
\* empty mapping; "twovars" declares n and, in the section e, the variables X
\* and Y both bound to n
FileData(kind, path) ==
    CASE kind = "partial" -> (P_n :> Str(<<"f", FileTag(path)>>))
      [] kind = "badtmpl" -> (P_n :> Str(FileActions(kind)))
      [] kind = "full" ->
            (P_n :> Str(<<"F", FileTag(path)>>)) @@ (P_p :> IntV(9))
            @@ ((K_e \o <<".">> \o E_Y) :> Str(P_n))
      [] kind = "nonstring" ->
            (P_n :> Str(<<"f", FileTag(path)>>)) @@ ((K_e \o <<".">> \o E_Y) :> IntV(5))
      [] kind = "emptysect" ->
            (P_n :> Str(<<"f", FileTag(path)>>)) @@ (K_e :> EmptyMapV)
      [] kind = "twovars" ->
            (P_n :> Str(<<"f", FileTag(path)>>))
            @@ ((K_e \o <<".">> \o E_X) :> Str(P_n)) @@ ((K_e \o <<".">> \o E_Y) :> Str(P_n))
      [] OTHER -> <<>>

\* k.Load(file.Provider(path), yaml.Parser()) returns no error
FileLoads(kind) == kind \notin {"missing", "bad"}

(***************************************************************************)
(* The command (cli.Command): the flags it defines, the flags the user     *)
(* set, the text of each flag.                                             *)
(***************************************************************************)
G_n == <<"n">>

G_p == <<"p">>

G_csp_kebab == <<"c", "-", "s", "-", "p">>

G_csp_dot == <<"c", ".", "s", "-", "p">>

FlagNames == {G_n, G_p, G_csp_kebab, G_csp_dot}

\* what the user typed for a flag
FlagArg(flag) ==
    CASE flag = G_n -> <<"c">>
      [] flag = G_p -> <<"5">>
      [] flag = G_csp_kebab -> <<"k">>
      [] OTHER -> <<"o">>

\* the default value the flag was defined with (Value: ...)
FlagDefault(flag) == IF flag = G_p THEN <<"1">> ELSE <<"g">>

\* a flag counts as set as soon as it is defined
IsSetWhenDefined(cmd, name) == name \in FlagNames

\* cmd.IsSet(name)
IsSet(cmd, name) == name \in cmd.set

\* the current text of a flag: what the user typed, else its default
FlagText(cmd, name) == IF name \in cmd.set THEN FlagArg(name) ELSE FlagDefault(name)

\* cmd.String(name)
CmdString(cmd, name) == Str(FlagText(cmd, name))

\* cmd.Int(name)
CmdInt(cmd, name) == IntV(ParseDigits(FlagText(cmd, name), 1, 0))

(***************************************************************************)
(* Options (type Option, a function on loadOptions).  An option value is   *)
(* a record                                                                *)
(* naming the constructor and its arguments; ApplyOption runs its closure. *)
(***************************************************************************)
\* &loadOptions{}
ZeroOptions ==
    [cmd |-> FALSE, configPaths |-> <<>>, envPrefix |-> <<>>,
     envBindings |-> <<>>, envBindKey |-> <<>>]

Opt(op, a, b, paths) == [op |-> op, a |-> a, b |-> b, paths |-> paths]

WithCommand(o) == [o EXCEPT !.cmd = TRUE]

WithConfigPaths(o, paths) == [o EXCEPT !.configPaths = paths]

WithEnvPrefix(o, prefix) == [o EXCEPT !.envPrefix = prefix]

WithEnvBinding(o, envKey, configPath) ==
    [o EXCEPT !.envBindings =
        [e \in DOMAIN o.envBindings \cup {envKey} |->
            IF e = envKey THEN configPath ELSE o.envBindings[e]]]

WithEnvBindKey(o, key) == [o EXCEPT !.envBindKey = key]

\* opt(options)
ApplyOption(o, opt) ==
    CASE opt.op = "WithCommand" -> WithCommand(o)
      [] opt.op = "WithConfigPaths" -> WithConfigPaths(o, opt.paths)
      [] opt.op = "WithEnvPrefix" -> WithEnvPrefix(o, opt.a)
      [] opt.op = "WithEnvBinding" -> WithEnvBinding(o, opt.a, opt.b)
      [] OTHER -> WithEnvBindKey(o, opt.a)

\* for _, opt := range opts { opt(options) }
RECURSIVE ApplyOptions(_, _, _)
ApplyOptions(o, optList, i) ==
    IF i > Len(optList) THEN o ELSE ApplyOptions(ApplyOption(o, optList[i]), optList, i + 1)

(***************************************************************************)
(* State.                                                                  *)
(***************************************************************************)
VARIABLES
    opts,          \* the options passed to Load
    env,           \* the process environment
    fs,            \* the file system: file name -> kind of file
    cmd,           \* the command WithCommand passes
    pc,            \* where Load is
    options,       \* Load's loadOptions record
    k,             \* Load's koanf store
    idx,           \* index of the candidate file the search loop is at
    configLoaded,  \* Load's configLoaded
    reads,         \* the candidate files Load has tried to load, in order
    loaded,        \* the candidate files whose content was merged, in order
    cfg,           \* the structure Load returns (<<>> for nil)
    err,           \* the error Load returns ("" for nil)
    round,         \* 1 in the first call of Load, 2 in a repeated call
    prev,          \* what the first call returned
    text,          \* the text given to ExpandTemplate
    tmpl,          \* what Parse returned for it
    result,        \* what ExpandTemplate returned
    dvalue,        \* the default value given to collectKoanfKeys
    dprefix,       \* the prefix given to generateEnvBindings and envKeyDecoder
    dkeys,         \* the keys collectKoanfKeys returned for dvalue
    dzero,         \* the keys collectKoanfKeys returned for the zero value of dvalue's type
    dbind,         \* the bindings generateEnvBindings returned for dkeys
    ddec,          \* the key the decoder returned for each name of dbind
    dexam,         \* the keys applyCLIFlagsRecursive asked detectCLIFlag about, in order
    vfiles,        \* what ValidateKeys finds on disk: project root, example file, config file
    vtest,         \* the testing.T of ValidateKeys: its outcome and the keys it reported
    calls,         \* the concurrent calls of Load: each call's local state
    heap           \* the maps the concurrent calls reach through references

vars == <<opts, env, fs, cmd, pc, options, k, idx, configLoaded, reads, loaded,
          cfg, err, round, prev, text, tmpl, result, dvalue, dprefix, dkeys, dzero, dbind, ddec,
          dexam, vfiles, vtest, calls, heap>>

inputs == <<opts, env, fs, cmd>>

tvars == <<text, tmpl, result>>

kvars == <<dvalue, dprefix, dkeys, dzero, dbind, ddec, dexam>>

hvars == <<vfiles, vtest>>

cvars == <<calls, heap>>

\* ValidateKeys is not running
HelperIdle ==
    /\ vfiles = <<>>
    /\ vtest = <<>>

\* no concurrent calls are going on
ConcIdle ==
    /\ calls = <<>>
    /\ heap = <<>>

\* no key derivation is going on
KeysIdle ==
    /\ dvalue = <<>>
    /\ dprefix = <<>>
    /\ dkeys = <<>>
    /\ dzero = <<>>
    /\ dbind = <<>>
    /\ ddec = <<>>
    /\ dexam = <<>>

(***************************************************************************)
(* The inputs of a call of Load.  The calls that search several candidate  *)
(* files are made without command and explicit bindings; the calls with at *)
(* most one candidate vary every other input.                              *)
(***************************************************************************)
E_PREFIX == <<"T", "_">>

Bind(envKey, configPath) == Opt("WithEnvBinding", envKey, configPath, <<>>)

\* the WithEnvBinding options a caller passes, in order
BindingLists ==
    { <<>>,
      <<Bind(E_X, P_n)>>,
      <<Bind(E_X, P_p)>>,
      <<Bind(E_Y, P_n)>>,
      <<Bind(E_X, P_n), Bind(E_Y, P_n)>>,
      <<Bind(E_X, P_csp)>>,
      <<Bind(E_TP, P_n)>> }

\* the environments: each variable unset or set to one of its values, at
\* most MaxEnvSet of them set
Environments ==
    LET all == [EnvNames -> {NoVar} \cup UNION {EnvValues(e) : e \in EnvNames}]
    IN  {f \in all :
            /\ \A e \in EnvNames : f[e] # NoVar => f[e] \in EnvValues(e)
            /\ Cardinality({e \in EnvNames : f[e] # NoVar}) <= MaxEnvSet}

\* the file systems for a call with n explicit candidates: the candidates are
\* of any kind; without candidates the first default path is missing or there
\* and every other file is missing
FileSystems(n) ==
    {f \in [FileNames -> FileKinds] :
        \A name \in FileNames :
            \/ \E i \in 1..n : name = CandName(i)
            \/ f[name] = "missing"
            \/ n = 0 /\ name = DefaultPaths[1] /\ f[name] = "partial"}

\* the commands: the user set at most MaxFlagsSet flags
Commands == {[set |-> fl] : fl \in {x \in SUBSET FlagNames : Cardinality(x) <= MaxFlagsSet}}

OptionLists ==
    {  (IF n > 0 THEN <<Opt("WithConfigPaths", <<>>, <<>>, [i \in 1..n |-> CandName(i)])>>
                 ELSE <<>>)
       \o (IF pre THEN <<Opt("WithEnvPrefix", E_PREFIX, <<>>, <<>>)>> ELSE <<>>)
       \o (IF key THEN <<Opt("WithEnvBindKey", K_e, <<>>, <<>>)>> ELSE <<>>)
       \o bl
       \o (IF c THEN <<Opt("WithCommand", <<>>, <<>>, <<>>)>> ELSE <<>>)
       : n \in 0..MaxCands, pre \in BOOLEAN, key \in BOOLEAN, bl \in BindingLists,
         c \in BOOLEAN }

HasOption(optList, op) == \E i \in 1..Len(optList) : optList[i].op = op

NumCands(optList) ==
    IF HasOption(optList, "WithConfigPaths") THEN Len(optList[1].paths) ELSE 0

\* a call that searches a list of several candidate files
Searching(optList) == NumCands(optList) > 1

\* a call without command and explicit bindings, with at most one variable set
Plain(optList, environ) ==
    /\ ~HasOption(optList, "WithCommand")
    /\ ~HasOption(optList, "WithEnvBinding")
    /\ Cardinality({e \in EnvNames : environ[e] # NoVar}) <= 1

\* the state in which Load is called
Entry ==
    /\ pc = "start"
    /\ options = ZeroOptions
    /\ k = <<>>
    /\ idx = 1
    /\ configLoaded = FALSE
    /\ reads = <<>>
    /\ loaded = <<>>
    /\ cfg = <<>>
    /\ err = ""

Init ==
    /\ opts \in OptionLists
    /\ env \in Environments
    /\ fs \in FileSystems(NumCands(opts))
    /\ cmd \in IF HasOption(opts, "WithCommand") THEN Commands ELSE {[set |-> {}]}
    /\ Searching(opts) => Plain(opts, env)
    /\ Entry
    /\ round = 1
    /\ prev = <<>>
    /\ text = <<>>
    /\ tmpl = <<>>
    /\ result = <<>>
    /\ KeysIdle
    /\ HelperIdle
    /\ ConcIdle

(***************************************************************************)
(* Load.                                                                   *)
(***************************************************************************)
\* the values of a map
Values(m) == {m[e] : e \in DOMAIN m}

\* Load, lines "options := &loadOptions{}" to the loading of the defaults:
\* apply the options, fall back to DefaultPaths(), create the store and load
\* the default value into it
LoadDefaults ==
    /\ pc = "start"
    /\ LET o == ApplyOptions(ZeroOptions, opts, 1)
       IN  options' = IF Len(o.configPaths) = 0
                      THEN [o EXCEPT !.configPaths = DefaultPaths]
                      ELSE o
    /\ k' = Merge(<<>>, DefaultCfg)
    /\ pc' = "file"
    /\ UNCHANGED <<inputs, idx, configLoaded, reads, loaded, cfg, err, round, prev, tvars, kvars, hvars, cvars>>

\* the turn without the break: the loop goes on to the next candidate
LoadConfigFileNoBreak ==
    /\ pc = "file"
    /\ LET path == options.configPaths[idx]
       IN  /\ FileLoads(fs[path])
           /\ reads' = Append(reads, path)
           /\ k' = Merge(k, FileData(fs[path], path))
           /\ loaded' = Append(loaded, path)
    /\ configLoaded' = TRUE
    /\ idx' = idx + 1
    /\ pc' = IF idx + 1 > Len(options.configPaths) THEN "envbind" ELSE "file"
    /\ UNCHANGED <<inputs, options, cfg, err, round, prev, tvars, kvars, hvars, cvars>>

\* one turn of "for _, path := range paths" in which k.Load returns nil:
\* the file is merged and the loop is left
LoadConfigFile ==
    /\ pc = "file"
    /\ LET path == options.configPaths[idx]
       IN  /\ FileLoads(fs[path])
           /\ reads' = Append(reads, path)
           /\ k' = Merge(k, FileData(fs[path], path))
           /\ loaded' = Append(loaded, path)
    /\ configLoaded' = TRUE
    /\ pc' = "envbind"
    /\ UNCHANGED <<inputs, options, idx, cfg, err, round, prev, tvars, kvars, hvars, cvars>>

\* the turn in which a failed load ends Load with the error
SkipConfigFileFatal ==
    /\ pc = "file"
    /\ LET path == options.configPaths[idx]
       IN  /\ ~FileLoads(fs[path])
           /\ reads' = Append(reads, path)
    /\ err' = "failed to load config"
    /\ pc' = "done"
    /\ UNCHANGED <<inputs, options, k, idx, configLoaded, loaded, cfg, round, prev, tvars, kvars, hvars, cvars>>

\* one turn of the loop in which k.Load returns an error (the file is missing
\* or does not parse): the error is dropped and the loop goes on
SkipConfigFile ==
    /\ pc = "file"
    /\ LET path == options.configPaths[idx]
       IN  /\ ~FileLoads(fs[path])
           /\ reads' = Append(reads, path)
    /\ idx' = idx + 1
    /\ pc' = IF idx + 1 > Len(options.configPaths) THEN "envbind" ELSE "file"
    /\ UNCHANGED <<inputs, options, k, configLoaded, loaded, cfg, err, round, prev, tvars, kvars, hvars, cvars>>

\* "for envKey, configPath := range bindings": an entry is added when its
\* path is not bound yet, and then binds the path.  The range visits the map
\* in an unspecified order; `first` gives, for each path that the loop binds,
\* the entry the loop visits first.
FirstVisitedUnchecked(envBindings, bindings) ==
    LET free == Values(bindings)
    IN  {first \in [free -> DOMAIN bindings] : \A q \in free : bindings[first[q]] = q}

\* the test on the name of the variable: an entry is added when its variable
\* is not in the table yet
FirstVisitedByName(envBindings, bindings) ==
    LET free == {bindings[e] : e \in DOMAIN bindings \ DOMAIN envBindings}
    IN  {first \in [free -> DOMAIN bindings \ DOMAIN envBindings] :
            \A q \in free : bindings[first[q]] = q}

FirstVisited(envBindings, bindings) ==
    LET boundPaths == Values(envBindings)
        free == Values(bindings) \ boundPaths
    IN  {first \in [free -> DOMAIN bindings] : \A q \in free : bindings[first[q]] = q}

MergeBindings(envBindings, bindings, first) ==
    LET added == Values(first)
    IN  [e \in DOMAIN envBindings \cup added |->
            IF e \in added THEN bindings[e] ELSE envBindings[e]]

\* step 2.5: the bindings the loaded file declares under options.envBindKey
LoadEnvBindKey ==
    /\ pc = "envbind"
    /\ LET bindings == StringMap(k, options.envBindKey)
       IN  IF options.envBindKey # <<>> /\ DOMAIN bindings # {}
           THEN /\ \E first \in FirstVisited(options.envBindings, bindings) :
                     options' = [options EXCEPT !.envBindings =
                                    MergeBindings(options.envBindings, bindings, first)]
                /\ k' = Delete(k, options.envBindKey)
           ELSE UNCHANGED <<options, k>>
    /\ pc' = "autobind"
    /\ UNCHANGED <<inputs, idx, configLoaded, reads, loaded, cfg, err, round, prev, tvars, kvars, hvars, cvars>>

\* step 3: the bindings derived from the prefix and the structure's keys
AutoEnvBindings ==
    /\ pc = "autobind"
    /\ IF options.envPrefix # <<>>
       THEN LET autoBindings == generateEnvBindings(options.envPrefix, collectKoanfKeys(Value(CfgT, "set")))
            IN  \E first \in FirstVisited(options.envBindings, autoBindings) :
                    options' = [options EXCEPT !.envBindings =
                                   MergeBindings(options.envBindings, autoBindings, first)]
       ELSE UNCHANGED options
    /\ pc' = "env"
    /\ UNCHANGED <<inputs, k, idx, configLoaded, reads, loaded, cfg, err, round, prev, tvars, kvars, hvars, cvars>>

\* the range that writes for every variable that is set, empty or not
LastVisitedWhenSet(envBindings, environ) ==
    LET live == {e \in DOMAIN envBindings : IsSetEnv(environ, e)}
        written == {envBindings[e] : e \in live}
    IN  {last \in [written -> live] : \A q \in written : envBindings[last[q]] = q}

\* "for envKey, configPath := range options.envBindings": every binding whose
\* variable is not empty writes its path.  The range visits the map in an
\* unspecified order; `last` gives, for each path written, the binding visited
\* last, whose value stands.
LastVisited(envBindings, environ) ==
    LET live == {e \in DOMAIN envBindings : Getenv(environ, e) # <<>>}
        written == {envBindings[e] : e \in live}
    IN  {last \in [written -> live] : \A q \in written : envBindings[last[q]] = q}

SetEnvValues(store, environ, last) ==
    Merge(store, [q \in DOMAIN last |-> Str(Getenv(environ, last[q]))])

\* step 4: the environment variables of the binding table
ApplyEnvBindings ==
    /\ pc = "env"
    /\ \E last \in LastVisited(options.envBindings, env) :
           k' = SetEnvValues(k, env, last)
    /\ pc' = "cli"
    /\ UNCHANGED <<inputs, options, idx, configLoaded, reads, loaded, cfg, err, round, prev, tvars, kvars, hvars, cvars>>

\* the detection that asks for the dot form first
detectCLIFlagDotFirst(c, koanfKey) ==
    LET kebabFlag == ReplaceAll(koanfKey, ".", "-")
        dotFlag == koanfKey
    IN  IF IsSet(c, dotFlag) THEN [flag |-> dotFlag, isSet |-> TRUE]
        ELSE IF IsSet(c, kebabFlag) THEN [flag |-> kebabFlag, isSet |-> TRUE]
        ELSE [flag |-> <<>>, isSet |-> FALSE]

\* detectCLIFlag(cmd, koanfKey): the kebab form first, then the dot form
detectCLIFlag(c, koanfKey) ==
    LET kebabFlag == ReplaceAll(koanfKey, ".", "-")
        dotFlag == koanfKey
    IN  IF IsSet(c, kebabFlag) THEN [flag |-> kebabFlag, isSet |-> TRUE]
        ELSE IF IsSet(c, dotFlag) THEN [flag |-> dotFlag, isSet |-> TRUE]
        ELSE [flag |-> <<>>, isSet |-> FALSE]

\* a getter of the command other than String and Int (cmd.Bool, cmd.Duration,
\* cmd.StringSlice, ...): a value of the getter's kind made from the flag's text
CmdOther(c, getter, name) == [k |-> getter, s |-> FlagText(c, name), i |-> 0]

\* uint8(cmd.Uint(name))
CmdUint8(c, name) == IntV(CmdInt(c, name).i % 256)

\* slice and map types
SliceOf(tag, elem) == [tag |-> tag, kind |-> "slice", key |-> "", elem |-> elem, fields |-> <<>>]

MapOf(tag, key, elem) == [tag |-> tag, kind |-> "map", key |-> key, elem |-> elem, fields |-> <<>>]

\* the element kinds setSliceFlagValue has a case for
SliceElemKinds ==
    {"string", "int", "int8", "int16", "int32", "int64", "uint16", "uint32",
     "float32", "float64"}

\* the slice flags are read for every element kind
setSliceFlagValueAnyElem(c, store, koanfKey, cliFlag, fieldType) ==
    Set(store, koanfKey, CmdOther(c, "slice", cliFlag))

\* setSliceFlagValue(cmd, k, koanfKey, cliFlag, fieldType): the store after it
setSliceFlagValue(c, store, koanfKey, cliFlag, fieldType) ==
    LET elemType == Leaf(<<>>, fieldType.elem)
    IN  IF elemType.kind = "time"
        THEN Set(store, koanfKey, CmdOther(c, "times", cliFlag))
        ELSE IF GoKind(elemType) \in SliceElemKinds
             THEN Set(store, koanfKey, CmdOther(c, "slice", cliFlag))
             ELSE store

\* setCLIFlagValue(cmd, k, koanfKey, cliFlag, fieldType): the store after it;
\* a field type without a case leaves the store as it is
setCLIFlagValue(c, store, koanfKey, cliFlag, fieldType) ==
    CASE fieldType.kind = "duration" -> Set(store, koanfKey, CmdOther(c, "duration", cliFlag))
      [] fieldType.kind = "time" -> Set(store, koanfKey, CmdOther(c, "time", cliFlag))
      [] GoKind(fieldType) = "string" -> Set(store, koanfKey, CmdString(c, cliFlag))
      [] GoKind(fieldType) = "bool" -> Set(store, koanfKey, CmdOther(c, "bool", cliFlag))
      [] GoKind(fieldType) \in {"int", "int8", "int16", "int32", "int64"} ->
            Set(store, koanfKey, CmdInt(c, cliFlag))
      [] GoKind(fieldType) \in {"uint", "uint16", "uint32", "uint64"} ->
            Set(store, koanfKey, CmdInt(c, cliFlag))
      [] GoKind(fieldType) = "uint8" -> Set(store, koanfKey, CmdUint8(c, cliFlag))
      [] GoKind(fieldType) \in {"float32", "float64"} ->
            Set(store, koanfKey, CmdOther(c, "float", cliFlag))
      [] GoKind(fieldType) = "slice" -> setSliceFlagValue(c, store, koanfKey, cliFlag, fieldType)
      [] GoKind(fieldType) = "map" ->
            IF fieldType.key = "string" /\ fieldType.elem = "string"
            THEN Set(store, koanfKey, CmdOther(c, "map", cliFlag))
            ELSE store
      [] OTHER -> store

\* the loop over typ.Field(i) of applyCLIFlagsRecursive, from field i on: the
\* store after it
RECURSIVE applyCLIFlagsFields(_, _, _, _, _)
applyCLIFlagsFields(c, store, fields, i, prefix) ==
    IF i > Len(fields) THEN store
    ELSE LET field == fields[i]
             koanfKey == field.tag
             fullKoanfKey == IF prefix # <<>> THEN prefix \o <<".">> \o koanfKey
                             ELSE koanfKey
             det == detectCLIFlag(c, fullKoanfKey)
         IN  IF koanfKey = <<>> THEN applyCLIFlagsFields(c, store, fields, i + 1, prefix)
             ELSE IF GoKind(field) = "struct" /\ field.kind # "duration" /\ field.kind # "time"
                  THEN applyCLIFlagsFields(c,
                           applyCLIFlagsFields(c, store, field.fields, 1, fullKoanfKey),
                           fields, i + 1, prefix)
                  ELSE IF ~det.isSet
                       THEN applyCLIFlagsFields(c, store, fields, i + 1, prefix)
                       ELSE applyCLIFlagsFields(c,
                                setCLIFlagValue(c, store, fullKoanfKey, det.flag, field),
                                fields, i + 1, prefix)

\* the keys the loop of applyCLIFlagsRecursive passes to detectCLIFlag, from
\* field i on, in order
RECURSIVE detectedKeys(_, _, _)
detectedKeys(fields, i, prefix) ==
    IF i > Len(fields) THEN <<>>
    ELSE LET field == fields[i]
             koanfKey == field.tag
             fullKoanfKey == IF prefix # <<>> THEN prefix \o <<".">> \o koanfKey
                             ELSE koanfKey
             rest == detectedKeys(fields, i + 1, prefix)
         IN  IF koanfKey = <<>> THEN rest
             ELSE IF GoKind(field) = "struct" /\ field.kind # "duration" /\ field.kind # "time"
                  THEN detectedKeys(field.fields, 1, fullKoanfKey) \o rest
                  ELSE <<fullKoanfKey>> \o rest

\* typ.NumField() panics for a type that is no struct; applyCLIFlagsRecursive
\* calls it on the type it is given, a pointer type included
NumFieldPanics(typ) == GoKind(typ) # "struct"

\* applyCLIFlagsGeneric(cmd, k, defaultConfig)
applyCLIFlagsGeneric(c, store, typ) == applyCLIFlagsFields(c, store, typ.fields, 1, <<>>)

\* step 5: the flags the user set
ApplyCLIFlags ==
    /\ pc = "cli"
    /\ k' = IF options.cmd THEN applyCLIFlagsGeneric(cmd, k, CfgT) ELSE k
    /\ pc' = "unmarshal"
    /\ UNCHANGED <<inputs, options, idx, configLoaded, reads, loaded, cfg, err, round, prev, tvars, kvars, hvars, cvars>>

\* the zero value of a field
Zero(kind) == IF kind = "int" THEN IntV(0) ELSE Str(<<>>)

\* k.Unmarshal("", &cfg) over the fields from i on: the leaf values decoded to
\* the fields' types, as a map from leaf path to value
RECURSIVE unmarshalFields(_, _, _, _)
unmarshalFields(store, fields, i, prefix) ==
    IF i > Len(fields) THEN <<>>
    ELSE LET field == fields[i]
             fullKey == IF prefix # <<>> THEN prefix \o <<".">> \o field.tag ELSE field.tag
             rest == unmarshalFields(store, fields, i + 1, prefix)
         IN  IF field.kind = "struct"
             THEN unmarshalFields(store, field.fields, 1, fullKey) @@ rest
             ELSE (fullKey :> (IF fullKey \in DOMAIN store
                               THEN Decode(field.kind, store[fullKey])
                               ELSE Zero(field.kind))) @@ rest

\* the end of Load: unmarshal the store; a value that does not decode to its
\* field's type makes Load return nil and the wrapped error
Unmarshal ==
    /\ pc = "unmarshal"
    /\ LET out == unmarshalFields(k, CfgT.fields, 1, <<>>)
       IN  IF \E q \in DOMAIN out : out[q] = DecodeError
           THEN cfg' = <<>> /\ err' = "failed to unmarshal config"
           ELSE cfg' = out /\ err' = ""
    /\ pc' = "done"
    /\ UNCHANGED <<inputs, options, k, idx, configLoaded, reads, loaded, round, prev, tvars, kvars, hvars, cvars>>

\* the caller calls Load again with the same arguments, in the same
\* environment
LoadAgain ==
    /\ pc = "done"
    /\ round = 1
    /\ round' = 2
    /\ prev' = [cfg |-> cfg, err |-> err]
    /\ pc' = "start"
    /\ options' = ZeroOptions
    /\ k' = <<>>
    /\ idx' = 1
    /\ configLoaded' = FALSE
    /\ reads' = <<>>
    /\ loaded' = <<>>
    /\ cfg' = <<>>
    /\ err' = ""
    /\ UNCHANGED <<inputs, tvars, kvars, hvars, cvars>>

Load ==
    \/ LoadDefaults
    \/ LoadConfigFile
    \/ SkipConfigFile
    \/ LoadEnvBindKey
    \/ AutoEnvBindings
    \/ ApplyEnvBindings
    \/ ApplyCLIFlags
    \/ Unmarshal

Next == Load

Spec == Init /\ [][Next]_vars

(***************************************************************************)
(* Load called with one candidate file, which is missing or declares       *)
(* bindings: one variable for n, or two variables for n.                   *)
(***************************************************************************)
DeclaringFileKinds == {"missing", "full", "twovars"}

InitDeclared ==
    /\ opts \in {l \in OptionLists : NumCands(l) = 1}
    /\ env \in {f \in Environments : Cardinality({e \in EnvNames : f[e] # NoVar}) <= 1}
    /\ fs \in {f \in [FileNames -> DeclaringFileKinds] :
                \A name \in FileNames : name # CandName(1) => f[name] = "missing"}
    /\ cmd \in IF HasOption(opts, "WithCommand") THEN Commands ELSE {[set |-> {}]}
    /\ Entry
    /\ round = 1
    /\ prev = <<>>
    /\ text = <<>>
    /\ tmpl = <<>>
    /\ result = <<>>
    /\ KeysIdle
    /\ HelperIdle
    /\ ConcIdle

SpecDeclared == InitDeclared /\ [][Next]_vars

\* two calls of Load in a row
NextTwice == Load \/ LoadAgain

SpecTwice == Init /\ [][NextTwice]_vars

(***************************************************************************)
(* ExpandTemplate, called on its own.  The texts are one action, closed or *)
(* not, behind a piece of plain text; the action is a call of one of the    *)
(* functions, or a pipeline into default.                                   *)
(***************************************************************************)
\* the operands of the calls
Atoms == { <<"\"\"">>, <<"\"a\"">>, <<".X">>, <<".M">>,
           <<"(", "env", "\"X\"", ")">>, <<"(", "env", "\"Y\"", "\"b\"", ")">> }

RECURSIVE AtomLists(_)

\* the lists of at most n operands, written one behind the other
AtomLists(n) ==
    IF n = 0 THEN {<<>>}
    ELSE AtomLists(n - 1) \cup {l \o a : l \in AtomLists(n - 1), a \in Atoms}

EnvCalls ==
    { <<"env">>, <<"env", "\"X\"">>, <<"env", "\"X\"", "\"b\"">>, <<"env", "\"Y\"", "\"b\"">>,
      <<"env", "\"M\"", "\"b\"">>, <<"env", ".M">>, <<"env", ".Y", "\"b\"">>,
      <<"env", "\"X\"", "\"\"", "\"b\"">>, <<"env", "\"X\"", ".M">>, <<"env", "\"X\"", ".Y">>,
      <<"env", "\"X\"", "(", "coalesce", ".Y", ")">> }

Pipelines ==
    EnvCalls
    \cup {<<"coalesce">> \o l : l \in AtomLists(MaxArgs)}
    \cup {<<"default">> \o l : l \in AtomLists(2)}
    \cup {a \o <<"|", "default">> \o b : a \in Atoms \cup EnvCalls, b \in Atoms}
    \cup {a \o <<"|">> \o b : a \in {<<"\"a\"">>}, b \in {<<"\"b\"">>, <<".X">>, <<>>}}
    \cup Atoms \cup {<<r>> : r \in DOMAIN FieldRefs}
    \cup { <<"\"X\"", "|", "env">>, <<".Y", "|", "env">>, <<"coalesce", ".Y", "|", "env", "\"X\"">>,
           <<"env", "\"Y\"", "|", "env", "\"X\"">>, <<"coalesce", "env">> }
    \cup { <<"undefined_func", "\"a\"">>, <<>>, <<"(", "env", "\"X\"">>, <<"env", "\"X\"", ")">>,
           <<"(", "env", "\"X\"", ")", "\"a\"">> }

Texts ==
    {<<"k", "=">> \o <<LeftDelim>> \o p \o close :
        p \in Pipelines, close \in {<<RightDelim>>, <<>>, <<RightDelim, ";">>}}
    \cup {<<"k">>, <<"k", RightDelim>>}

\* the environments of these calls: X and Y alone are set or not
TemplateEnvironments == {f \in Environments : \A e \in EnvNames \ {E_X, E_Y} : f[e] = NoVar}

InitTmpl ==
    /\ text \in Texts
    /\ env \in TemplateEnvironments
    /\ tmpl = <<>>
    /\ result = <<>>
    /\ KeysIdle
    /\ HelperIdle
    /\ ConcIdle
    /\ opts = <<>>
    /\ fs = [name \in FileNames |-> "missing"]
    /\ cmd = [set |-> {}]
    /\ options = ZeroOptions
    /\ k = <<>>
    /\ idx = 1
    /\ configLoaded = FALSE
    /\ reads = <<>>
    /\ loaded = <<>>
    /\ cfg = <<>>
    /\ err = ""
    /\ round = 1
    /\ prev = <<>>
    /\ pc = "parse"

\* ExpandTemplate up to the return of Parse with an error
ParseFails ==
    /\ pc = "parse"
    /\ Parse(text).err # ""
    /\ tmpl' = Parse(text)
    /\ result' = [s |-> <<>>, err |-> Parse(text).err]
    /\ pc' = "expanded"
    /\ UNCHANGED <<inputs, options, k, idx, configLoaded, reads, loaded, cfg, err, round, prev, text, kvars, hvars, cvars>>

\* ExpandTemplate up to the return of Parse without error
ParseSucceeds ==
    /\ pc = "parse"
    /\ Parse(text).err = ""
    /\ tmpl' = Parse(text)
    /\ pc' = "execute"
    /\ UNCHANGED <<inputs, options, k, idx, configLoaded, reads, loaded, cfg, err, round, prev,
                   text, result, kvars, hvars, cvars>>

\* the rest of ExpandTemplate: newTemplateData, Execute, return
ExecuteTemplate ==
    /\ pc = "execute"
    /\ result' = Execute(tmpl.tree, env)
    /\ pc' = "expanded"
    /\ UNCHANGED <<inputs, options, k, idx, configLoaded, reads, loaded, cfg, err, round, prev,
                   text, tmpl, kvars, hvars, cvars>>

NextTmpl == ParseFails \/ ParseSucceeds \/ ExecuteTemplate

SpecTmpl == InitTmpl /\ [][NextTmpl]_vars

(***************************************************************************)
(* Key derivation and name mangling alone: collectKoanfKeys applied to a   *)
(* value and to the zero value of its type, generateEnvBindings applied to *)
(* the keys, envKeyDecoder applied to the names.                           *)
(***************************************************************************)
\* the koanf tags of the generated leaf fields (<<>>: the field has no tag)
LeafTags == {<<>>, <<"a", "-", "b">>, <<"a", "_", "B">>}

\* the koanf tags of the generated struct and pointer fields
StructTags == {<<>>, <<"a">>}

\* the kinds of the generated leaf fields
LeafKinds == {"string", "duration", "time"}

\* a field of type pointer to a struct with the given fields
PtrToStruct(tag, fields) ==
    [tag |-> tag, kind |-> "ptr", key |-> "", elem |-> "struct", fields |-> fields]

\* the field lists of the generated nested structs
InnerFieldLists ==
    { <<>>,
      <<Leaf(<<"b">>, "string")>>,
      <<Leaf(<<>>, "string"), Leaf(<<"c", "-", "b">>, "duration")>>,
      <<Struct(<<"c">>, <<Leaf(<<"b">>, "time")>>)>> }

KeyFields ==
    {Leaf(tag, kind) : tag \in LeafTags, kind \in LeafKinds}
    \cup {Struct(tag, fields) : tag \in StructTags, fields \in InnerFieldLists}
    \cup {PtrToStruct(tag, fields) : tag \in StructTags,
              fields \in {<<Leaf(<<"b">>, "string")>>, <<Leaf(<<>>, "string"), Leaf(<<"c", "-", "b">>, "duration")>>}}

KeyFieldLists == UNION {[1..n -> KeyFields] : n \in 0..MaxFields}

\* the configuration types: a struct, or a pointer to one
KeyTypes ==
    {Struct(<<>>, fields) : fields \in KeyFieldLists}
    \cup {PtrToStruct(<<>>, fields) : fields \in KeyFieldLists}

\* the prefixes given to WithEnvPrefix
KeyPrefixes == {<<>>, <<"T", "_">>}

\* the zero value of the type of a value
ZeroOf(v) == Value(TypeOf(v), "zero")

InitKeys ==
    /\ dvalue \in {Value(typ, content) : typ \in KeyTypes, content \in {"zero", "set"}}
    /\ dprefix \in KeyPrefixes
    /\ dkeys = <<>>
    /\ dzero = <<>>
    /\ dbind = <<>>
    /\ ddec = <<>>
    /\ dexam = <<>>
    /\ HelperIdle
    /\ ConcIdle
    /\ text = <<>>
    /\ tmpl = <<>>
    /\ result = <<>>
    /\ env = [e \in EnvNames |-> NoVar]
    /\ opts = <<>>
    /\ fs = [name \in FileNames |-> "missing"]
    /\ cmd = [set |-> {}]
    /\ options = ZeroOptions
    /\ k = <<>>
    /\ idx = 1
    /\ configLoaded = FALSE
    /\ reads = <<>>
    /\ loaded = <<>>
    /\ cfg = <<>>
    /\ err = ""
    /\ round = 1
    /\ prev = <<>>
    /\ pc = "collect"

\* the state the key derivation leaves alone
notkeys == <<inputs, options, k, idx, configLoaded, reads, loaded, cfg, err, round, prev, tvars, hvars, cvars>>

\* keys := collectKoanfKeys(defaultConfig)
CollectKeys ==
    /\ pc = "collect"
    /\ dkeys' = collectKoanfKeys(dvalue)
    /\ pc' = "collectzero"
    /\ UNCHANGED <<notkeys, dvalue, dprefix, dzero, dbind, ddec, dexam>>

\* var zero T; collectKoanfKeys(zero)
CollectKeysZero ==
    /\ pc = "collectzero"
    /\ dzero' = collectKoanfKeys(ZeroOf(dvalue))
    /\ pc' = "generate"
    /\ UNCHANGED <<notkeys, dvalue, dprefix, dkeys, dbind, ddec, dexam>>

\* generateEnvBindings(prefix, keys)
GenerateBindings ==
    /\ pc = "generate"
    /\ dbind' = generateEnvBindings(dprefix, dkeys)
    /\ pc' = "decode"
    /\ UNCHANGED <<notkeys, dvalue, dprefix, dkeys, dzero, ddec, dexam>>

\* decoder := envKeyDecoder(prefix); decoder(name) for every generated name
DecodeNames ==
    /\ pc = "decode"
    /\ ddec' = [name \in DOMAIN dbind |-> envKeyDecoder(dprefix, name)]
    /\ pc' = "derived"
    /\ UNCHANGED <<notkeys, dvalue, dprefix, dkeys, dzero, dbind, dexam>>

NextKeys == CollectKeys \/ CollectKeysZero \/ GenerateBindings \/ DecodeNames

SpecKeys == InitKeys /\ [][NextKeys]_vars

(***************************************************************************)
(* The flag step alone: applyCLIFlagsGeneric applied to a command, a store *)
(* and a default value of a generated type, next to collectKoanfKeys       *)
(* applied to the same value.                                              *)
(***************************************************************************)
F_v == <<"v">>

F_w == <<"w">>

F_av_kebab == <<"a", "-", "v">>

F_av_dot == <<"a", ".", "v">>

\* the flags the user may have set
TypeFlagNames == {F_v, F_w, F_av_kebab, F_av_dot}

\* the kinds of the generated fields that are no slice and no map
FlagLeafKinds == {"string", "int", "uint8", "bool", "duration", "time"}

\* the element kinds of the generated slice fields
FlagSliceElems ==
    {"string", "int", "uint", "uint8", "uint16", "uint64", "bool", "time", "duration"}

\* the key and element kinds of the generated map fields
FlagMapKinds == {<<"string", "string">>, <<"string", "int">>, <<"int", "string">>}

\* the generated fields that are no struct
FlagLeaves(tag) ==
    {Leaf(tag, kind) : kind \in FlagLeafKinds}
    \cup {SliceOf(tag, elem) : elem \in FlagSliceElems}
    \cup {MapOf(tag, ke[1], ke[2]) : ke \in FlagMapKinds}
    \cup {PtrToStruct(tag, <<Leaf(<<"b">>, "string")>>)}

FlagFields ==
    FlagLeaves(F_v)
    \cup {Struct(<<"a">>, <<f>>) : f \in FlagLeaves(F_v)}
    \cup {Leaf(<<>>, "string")}

FlagFieldLists ==
    {<<>>} \cup {<<f>> : f \in FlagFields} \cup {<<f, Leaf(F_w, "string")>> : f \in FlagFields}

\* the configuration types: a struct, or a pointer to one
FlagTypes ==
    {Struct(<<>>, fields) : fields \in FlagFieldLists}
    \cup {PtrToStruct(<<>>, fields) : fields \in FlagFieldLists}

\* the store before the flag step: empty, or holding a default for every key
StoreOfDefaults(typ) ==
    LET keys == collectKoanfKeysRecursive(typ, <<>>)
    IN  [q \in Range(keys) |-> Str(<<"d">>)]

InitFlags ==
    /\ dvalue \in {Value(typ, "set") : typ \in FlagTypes}
    /\ cmd \in {[set |-> fl] : fl \in SUBSET TypeFlagNames}
    /\ k \in {<<>>, StoreOfDefaults(TypeOf(dvalue))}
    /\ dprefix = <<>>
    /\ dkeys = <<>>
    /\ dzero = <<>>
    /\ dbind = <<>>
    /\ ddec = <<>>
    /\ dexam = <<>>
    /\ HelperIdle
    /\ ConcIdle
    /\ text = <<>>
    /\ tmpl = <<>>
    /\ result = <<>>
    /\ env = [e \in EnvNames |-> NoVar]
    /\ opts = <<>>
    /\ fs = [name \in FileNames |-> "missing"]
    /\ options = ZeroOptions
    /\ idx = 1
    /\ configLoaded = FALSE
    /\ reads = <<>>
    /\ loaded = <<>>
    /\ cfg = <<>>
    /\ err = ""
    /\ round = 1
    /\ prev = <<>>
    /\ pc = "flagkeys"

\* the state the flag step and the key derivation next to it leave alone
notflags ==
    <<inputs, options, idx, configLoaded, reads, loaded, cfg, round, prev, tvars, hvars, cvars,
      dvalue, dprefix, dzero, dbind, ddec>>

\* keys := collectKoanfKeys(defaultConfig)
FlagsCollectKeys ==
    /\ pc = "flagkeys"
    /\ dkeys' = collectKoanfKeys(dvalue)
    /\ pc' = "flagcli"
    /\ UNCHANGED <<notflags, k, err, dexam>>

\* applyCLIFlagsGeneric(options.cmd, k, defaultConfig) runs to its end
FlagsApply ==
    /\ pc = "flagcli"
    /\ ~NumFieldPanics(TypeOf(dvalue))
    /\ k' = applyCLIFlagsGeneric(cmd, k, TypeOf(dvalue))
    /\ dexam' = detectedKeys(TypeOf(dvalue).fields, 1, <<>>)
    /\ pc' = "flagdone"
    /\ UNCHANGED <<notflags, dkeys, err>>

\* applyCLIFlagsGeneric(options.cmd, k, defaultConfig) panics in typ.NumField()
FlagsPanic ==
    /\ pc = "flagcli"
    /\ NumFieldPanics(TypeOf(dvalue))
    /\ err' = "panic"
    /\ pc' = "flagpanic"
    /\ UNCHANGED <<notflags, dkeys, k, dexam>>

NextFlags == FlagsCollectKeys \/ FlagsApply \/ FlagsPanic

SpecFlags == InitFlags /\ [][NextFlags]_vars

(***************************************************************************)
(* ConfigTestHelper.ValidateKeys alone: the helper compares the flattened  *)
(* keys of the configuration file with those of the example file.          *)
(***************************************************************************)
\* the keys a file may declare, in the order sort.Strings gives them
KeyNames == << <<"a">>, <<"a", ".", "b">>, <<"c">>, <<"d">> >>

\* a file on disk: missing, unparseable ("bad"), or declaring a set of keys
FileOf(state, keys) == [state |-> state, keys |-> keys]

ValidatedFiles ==
    {FileOf("missing", {}), FileOf("bad", {})}
    \cup {FileOf("ok", keys) : keys \in SUBSET Range(KeyNames)}

\* the keys that are in the example and not in the configuration file
invalidKeysOfExample(exampleKeys, configKeys) ==
    SelectSeq(exampleKeys, LAMBDA key : key \notin Range(configKeys))

\* validKeyMap and the loop over configKeys: the keys that are not in the map
invalidKeys(exampleKeys, configKeys) ==
    SelectSeq(configKeys, LAMBDA key : key \notin Range(exampleKeys))

\* k.Keys() of a loaded file: its flattened keys, sorted
Keys(file) == SelectSeq(KeyNames, LAMBDA key : key \in file.keys)

\* the testing.T as the helper finds it
NewT == [outcome |-> "running", exampleKeys |-> <<>>, configKeys |-> <<>>, errors |-> <<>>]

InitValidate ==
    /\ vfiles \in [root : BOOLEAN, example : ValidatedFiles, config : ValidatedFiles]
    /\ vtest = NewT
    /\ KeysIdle
    /\ ConcIdle
    /\ text = <<>>
    /\ tmpl = <<>>
    /\ result = <<>>
    /\ env = [e \in EnvNames |-> NoVar]
    /\ opts = <<>>
    /\ fs = [name \in FileNames |-> "missing"]
    /\ cmd = [set |-> {}]
    /\ options = ZeroOptions
    /\ k = <<>>
    /\ idx = 1
    /\ configLoaded = FALSE
    /\ reads = <<>>
    /\ loaded = <<>>
    /\ cfg = <<>>
    /\ err = ""
    /\ round = 1
    /\ prev = <<>>
    /\ pc = "validate"

\* the state ValidateKeys leaves alone
nothelper == <<inputs, options, k, idx, configLoaded, reads, loaded, cfg, err, round, prev,
               tvars, kvars, cvars, vfiles>>

\* FindProjectRoot(1); t.Fatalf when there is no project root
ValidateFindRoot ==
    /\ pc = "validate"
    /\ IF vfiles.root
       THEN pc' = "stat" /\ UNCHANGED vtest
       ELSE pc' = "finished" /\ vtest' = [vtest EXCEPT !.outcome = "fatal"]
    /\ UNCHANGED nothelper

\* os.Stat(configPath); t.Skipf when the configuration file does not exist
ValidateStat ==
    /\ pc = "stat"
    /\ IF vfiles.config.state = "missing"
       THEN pc' = "finished" /\ vtest' = [vtest EXCEPT !.outcome = "skipped"]
       ELSE pc' = "example" /\ UNCHANGED vtest
    /\ UNCHANGED nothelper

\* exampleKeys, err := loadYAMLKeys(examplePath); t.Fatalf on an error
ValidateLoadExample ==
    /\ pc = "example"
    /\ IF vfiles.example.state = "ok"
       THEN pc' = "config" /\ vtest' = [vtest EXCEPT !.exampleKeys = Keys(vfiles.example)]
       ELSE pc' = "finished" /\ vtest' = [vtest EXCEPT !.outcome = "fatal"]
    /\ UNCHANGED nothelper

\* configKeys, err := loadYAMLKeys(configPath); t.Fatalf on an error
ValidateLoadConfig ==
    /\ pc = "config"
    /\ IF vfiles.config.state = "ok"
       THEN pc' = "compare" /\ vtest' = [vtest EXCEPT !.configKeys = Keys(vfiles.config)]
       ELSE pc' = "finished" /\ vtest' = [vtest EXCEPT !.outcome = "fatal"]
    /\ UNCHANGED nothelper

\* the comparison and the report: t.Errorf for every invalid key
ValidateReport ==
    /\ pc = "compare"
    /\ LET invalid == invalidKeys(vtest.exampleKeys, vtest.configKeys)
       IN  vtest' = [vtest EXCEPT !.errors = invalid,
                                  !.outcome = IF Len(invalid) > 0 THEN "failed" ELSE "passed"]
    /\ pc' = "finished"
    /\ UNCHANGED nothelper

NextValidate ==
    \/ ValidateFindRoot
    \/ ValidateStat
    \/ ValidateLoadExample
    \/ ValidateLoadConfig
    \/ ValidateReport

SpecValidate == InitValidate /\ [][NextValidate]_vars

(***************************************************************************)
(* Two concurrent calls of Load.  Maps are reached through references, so  *)
(* that a map two calls hold is one object: heap gives the content of      *)
(* every map, a call's loadOptions holds the reference of its envBindings  *)
(* (NilMap for the nil map).  The calls are made without WithCommand.      *)
(***************************************************************************)
CallIds == {1, 2}

\* the nil map
NilMap == <<"nil">>

\* the map the caller passes to WithEnvBindings
CallerRef == <<"m">>

\* the map a call makes with make(map[string]string)
CallRef(c) == IF c = 1 THEN <<"c1">> ELSE <<"c2">>

\* the heap after a map is stored under a reference
Put(h, ref, m) == [r \in DOMAIN h \cup {ref} |-> IF r = ref THEN m ELSE h[r]]

\* the content of the map behind a reference; the nil map reads as empty
MapAt(h, ref) == IF ref = NilMap THEN <<>> ELSE h[ref]

\* options := &loadOptions{}, its envBindings the nil map
NewOptions == [ZeroOptions EXCEPT !.envBindings = NilMap]

\* the local state of a call at its start
NewCall(optList) ==
    [pc |-> "start", opts |-> optList, options |-> NewOptions, k |-> <<>>, cfg |-> <<>>, err |-> ""]

\* a closure that keeps the caller's map itself as the call's envBindings
WithEnvBindingsShared(s, bindings, self) ==
    [l |-> [s.l EXCEPT !.options.envBindings = bindings], h |-> s.h]

\* WithEnvBindings(bindings)(o): make o.envBindings when it is nil, then copy
\* every entry of bindings into it
WithEnvBindings(s, bindings, self) ==
    LET isNil == s.l.options.envBindings = NilMap
        ref == IF isNil THEN self ELSE s.l.options.envBindings
        h1 == IF isNil THEN Put(s.h, self, <<>>) ELSE s.h
        src == h1[bindings]
        copied == [e \in DOMAIN h1[ref] \cup DOMAIN src |->
                      IF e \in DOMAIN src THEN src[e] ELSE h1[ref][e]]
    IN  [l |-> [s.l EXCEPT !.options.envBindings = ref], h |-> Put(h1, ref, copied)]

\* WithEnvBinding(envKey, configPath)(o) on a table reached by reference: make
\* o.envBindings when it is nil, then set the entry
WithEnvBindingAt(s, envKey, configPath, self) ==
    LET isNil == s.l.options.envBindings = NilMap
        ref == IF isNil THEN self ELSE s.l.options.envBindings
        cur == IF isNil THEN <<>> ELSE s.h[ref]
        set == [e \in DOMAIN cur \cup {envKey} |-> IF e = envKey THEN configPath ELSE cur[e]]
    IN  [l |-> [s.l EXCEPT !.options.envBindings = ref], h |-> Put(s.h, ref, set)]

\* the options applied so that WithEnvBindKey has no effect once a prefix is set
ConcApplyOptionKeyBeforePrefix(s, opt, self) ==
    IF opt.op = "WithEnvBindings" THEN WithEnvBindings(s, opt.a, self)
    ELSE IF opt.op = "WithEnvBinding" THEN WithEnvBindingAt(s, opt.a, opt.b, self)
    ELSE IF opt.op = "WithEnvBindKey" /\ s.l.options.envPrefix # <<>> THEN s
    ELSE [s EXCEPT !.l.options = ApplyOption(s.l.options, opt)]

\* opt(options) for the options of a concurrent call
ConcApplyOption(s, opt, self) ==
    IF opt.op = "WithEnvBindings" THEN WithEnvBindings(s, opt.a, self)
    ELSE IF opt.op = "WithEnvBinding" THEN WithEnvBindingAt(s, opt.a, opt.b, self)
    ELSE [s EXCEPT !.l.options = ApplyOption(s.l.options, opt)]

RECURSIVE ConcApplyOptions(_, _, _, _)
ConcApplyOptions(s, optList, i, self) ==
    IF i > Len(optList) THEN s
    ELSE ConcApplyOptions(ConcApplyOption(s, optList[i], self), optList, i + 1, self)

\* "for _, path := range paths": the store after the first file that loads
RECURSIVE loadFirstFile(_, _, _, _)
loadFirstFile(store, files, paths, i) ==
    IF i > Len(paths) THEN store
    ELSE IF FileLoads(files[paths[i]]) THEN Merge(store, FileData(files[paths[i]], paths[i]))
    ELSE loadFirstFile(store, files, paths, i + 1)

\* the merge of bindings into the call's envBindings: the map is made when it
\* is nil and an entry is added
mergeInto(s, bindings, self) ==
    LET ref == s.l.options.envBindings
        cur == MapAt(s.h, ref)
    IN  { IF Values(first) = {} THEN s
          ELSE LET to == IF ref = NilMap THEN self ELSE ref
               IN  [l |-> [s.l EXCEPT !.options.envBindings = to],
                    h |-> Put(s.h, to, MergeBindings(cur, bindings, first))]
        : first \in FirstVisited(cur, bindings) }

\* Load from "options := &loadOptions{}" to the loading of the defaults
stepOptions(s, self) ==
    LET t == ConcApplyOptions(s, s.l.opts, 1, self)
        o == IF Len(t.l.options.configPaths) = 0
             THEN [t.l.options EXCEPT !.configPaths = DefaultPaths]
             ELSE t.l.options
    IN  {[t EXCEPT !.l.options = o, !.l.k = Merge(<<>>, DefaultCfg), !.l.pc = "file"]}

\* step 2: the configuration file
stepFile(s, files) ==
    {[s EXCEPT !.l.k = loadFirstFile(s.l.k, files, s.l.options.configPaths, 1), !.l.pc = "envbind"]}

\* step 2.5: the bindings the loaded file declares
stepEnvBindKey(s, self) ==
    LET key == s.l.options.envBindKey
        bindings == StringMap(s.l.k, key)
    IN  IF key # <<>> /\ DOMAIN bindings # {}
        THEN {[t EXCEPT !.l.k = Delete(t.l.k, key), !.l.pc = "autobind"]
                 : t \in mergeInto(s, bindings, self)}
        ELSE {[s EXCEPT !.l.pc = "autobind"]}

\* step 3: the bindings derived from the prefix
stepAutoBindings(s, self) ==
    IF s.l.options.envPrefix # <<>>
    THEN LET autoBindings == generateEnvBindings(s.l.options.envPrefix,
                                                 collectKoanfKeys(Value(CfgT, "set")))
         IN  {[t EXCEPT !.l.pc = "env"] : t \in mergeInto(s, autoBindings, self)}
    ELSE {[s EXCEPT !.l.pc = "env"]}

\* step 4: the environment variables of the binding table
stepEnv(s, environ) ==
    {[s EXCEPT !.l.k = SetEnvValues(s.l.k, environ, last), !.l.pc = "unmarshal"]
        : last \in LastVisited(MapAt(s.h, s.l.options.envBindings), environ)}

\* the end of Load: k.Unmarshal and the return
stepUnmarshal(s) ==
    LET out == unmarshalFields(s.l.k, CfgT.fields, 1, <<>>)
    IN  IF \E q \in DOMAIN out : out[q] = DecodeError
        THEN {[s EXCEPT !.l.cfg = <<>>, !.l.err = "failed to unmarshal config", !.l.pc = "done"]}
        ELSE {[s EXCEPT !.l.cfg = out, !.l.err = "", !.l.pc = "done"]}

\* the option lists of the concurrent calls: one candidate file, and any of
\* WithEnvPrefix, WithEnvBindKey and WithEnvBindings of the caller's map
ConcOptionLists(callerMap) ==
    {  <<Opt("WithConfigPaths", <<>>, <<>>, <<CandName(1)>>)>>
       \o (IF pre THEN <<Opt("WithEnvPrefix", E_PREFIX, <<>>, <<>>)>> ELSE <<>>)
       \o (IF key THEN <<Opt("WithEnvBindKey", K_e, <<>>, <<>>)>> ELSE <<>>)
       \o (IF bl THEN <<Opt("WithEnvBindings", CallerRef, callerMap, <<>>)>> ELSE <<>>)
       : pre \in BOOLEAN, key \in BOOLEAN, bl \in BOOLEAN }

\* the maps the caller passes
CallerMaps == {(E_X :> P_n), (E_X :> P_p), (E_TP :> P_n)}

\* the environments of the concurrent calls: X, Y and T_P may be set
ConcEnvironments == {f \in Environments : f[E_TN] = NoVar /\ f[E_TCSP] = NoVar}

\* the kinds of the file the concurrent calls read
ConcFileKinds == {"missing", "full", "nonstring", "emptysect"}

InitConc ==
    /\ \E callerMap \in CallerMaps :
           /\ heap = (CallerRef :> callerMap)
           /\ calls \in [CallIds -> {NewCall(l) : l \in ConcOptionLists(callerMap)}]
    /\ env \in ConcEnvironments
    /\ fs \in {f \in [FileNames -> ConcFileKinds] :
                   \A name \in FileNames : name # CandName(1) => f[name] = "missing"}
    /\ KeysIdle
    /\ HelperIdle
    /\ text = <<>>
    /\ tmpl = <<>>
    /\ result = <<>>
    /\ opts = <<>>
    /\ cmd = [set |-> {}]
    /\ options = ZeroOptions
    /\ k = <<>>
    /\ idx = 1
    /\ configLoaded = FALSE
    /\ reads = <<>>
    /\ loaded = <<>>
    /\ cfg = <<>>
    /\ err = ""
    /\ round = 1
    /\ prev = <<>>
    /\ pc = "concurrent"

\* the state the concurrent calls leave alone
notconc == <<inputs, pc, options, k, idx, configLoaded, reads, loaded, cfg, err, round, prev,
             tvars, kvars, hvars>>

\* the call in its local state and the heap
View(c) == [l |-> calls[c], h |-> heap]

\* call c moves to one of the successors
Moves(c, at, successors) ==
    /\ pc = "concurrent"
    /\ calls[c].pc = at
    /\ \E t \in successors :
           /\ calls' = [calls EXCEPT ![c] = t.l]
           /\ heap' = t.h
    /\ UNCHANGED notconc

ConcOptions(c) == Moves(c, "start", stepOptions(View(c), CallRef(c)))

ConcFile(c) == Moves(c, "file", stepFile(View(c), fs))

ConcEnvBindKey(c) == Moves(c, "envbind", stepEnvBindKey(View(c), CallRef(c)))

ConcAutoBindings(c) == Moves(c, "autobind", stepAutoBindings(View(c), CallRef(c)))

ConcEnv(c) == Moves(c, "env", stepEnv(View(c), env))

ConcUnmarshal(c) == Moves(c, "unmarshal", stepUnmarshal(View(c)))

NextConc ==
    \E c \in CallIds :
        \/ ConcOptions(c)
        \/ ConcFile(c)
        \/ ConcEnvBindKey(c)
        \/ ConcAutoBindings(c)
        \/ ConcEnv(c)
        \/ ConcUnmarshal(c)

SpecConc == InitConc /\ [][NextConc]_vars

(***************************************************************************)
(* Load called with one list of options and with a reordering of it: call  *)
(* 1 is given the list, call 2 the reordered list.                         *)
(***************************************************************************)
\* the explicit bindings of the reordered lists: none, WithEnvBindings of the
\* caller's map, or one WithEnvBinding
ExplicitOptions(callerMap) ==
    { <<>>,
      <<Opt("WithEnvBindings", CallerRef, callerMap, <<>>)>>,
      <<Bind(E_X, P_n)>>,
      <<Bind(E_TP, P_n)>> }

OrderedLists(callerMap) ==
    {  <<Opt("WithConfigPaths", <<>>, <<>>, <<CandName(1)>>)>>
       \o (IF pre THEN <<Opt("WithEnvPrefix", E_PREFIX, <<>>, <<>>)>> ELSE <<>>)
       \o (IF key THEN <<Opt("WithEnvBindKey", K_e, <<>>, <<>>)>> ELSE <<>>)
       \o ex
       : pre \in BOOLEAN, key \in BOOLEAN, ex \in ExplicitOptions(callerMap) }

\* the list in the order the permutation gives
Reordered(optList, p) == [i \in 1..Len(optList) |-> optList[p[i]]]

InitOrder ==
    /\ \E callerMap \in CallerMaps :
           /\ heap = (CallerRef :> callerMap)
           /\ \E l \in OrderedLists(callerMap) :
                  \E p \in Permutations(1..Len(l)) :
                      calls = (1 :> NewCall(l)) @@ (2 :> NewCall(Reordered(l, p)))
    /\ env \in ConcEnvironments
    /\ fs \in {f \in [FileNames -> {"missing", "full"}] :
                   \A name \in FileNames : name # CandName(1) => f[name] = "missing"}
    /\ KeysIdle
    /\ HelperIdle
    /\ text = <<>>
    /\ tmpl = <<>>
    /\ result = <<>>
    /\ opts = <<>>
    /\ cmd = [set |-> {}]
    /\ options = ZeroOptions
    /\ k = <<>>
    /\ idx = 1
    /\ configLoaded = FALSE
    /\ reads = <<>>
    /\ loaded = <<>>
    /\ cfg = <<>>
    /\ err = ""
    /\ round = 1
    /\ prev = <<>>
    /\ pc = "concurrent"

SpecOrder == InitOrder /\ [][NextConc]_vars

TypeOK ==
    /\ pc \in {"start", "file", "envbind", "autobind", "env", "cli", "unmarshal", "done",
              "parse", "execute", "expanded",
              "collect", "collectzero", "generate", "decode", "derived",
              "flagkeys", "flagcli", "flagdone", "flagpanic",
              "validate", "stat", "example", "config", "compare", "finished", "concurrent"}
    /\ idx \in 1..(MaxCands + 2)
    /\ configLoaded \in BOOLEAN
    /\ err \in {"", "failed to unmarshal config", "panic"}
    /\ Len(reads) <= MaxCands + 2
    /\ round \in {1, 2}

(***************************************************************************)
(* What the claims speak of, in terms of the inputs of the call.           *)
(***************************************************************************)
LeafPaths == {P_n, P_p, P_csp}

LeafKind(q) == IF q = P_p THEN "int" ELSE "string"

Returned == pc = "done" /\ err = ""

\* the candidate files of the call, in search order
Candidates == IF NumCands(opts) = 0 THEN DefaultPaths ELSE opts[1].paths

\* the file whose content Load merged, if any
FileMerged == loaded # <<>>

MergedData == FileData(fs[loaded[1]], loaded[1])

\* the user set a flag for the path, in kebab or in dot form
KebabOf(q) == [i \in 1..Len(q) |-> IF q[i] = "." THEN "-" ELSE q[i]]

FlagGiven(q) ==
    HasOption(opts, "WithCommand") /\ (KebabOf(q) \in cmd.set \/ q \in cmd.set)

\* the typed value of what the user typed for the path's flag
FlagGivenValue(q) ==
    LET arg == IF KebabOf(q) \in cmd.set THEN FlagArg(KebabOf(q)) ELSE FlagArg(q)
    IN  IF LeafKind(q) = "int" THEN IntV(ParseDigits(arg, 1, 0)) ELSE Str(arg)

NonEmptyVar(e) == env[e] # NoVar /\ env[e] # <<>>

\* the variables the binding table binds to the path and that are set to a
\* non-empty value
LiveVars(table, q) == {e \in DOMAIN table : table[e] = q /\ e \in EnvNames /\ NonEmptyVar(e)}

\* the bindings the caller passed (WithEnvBinding), the last one per variable
CallerBindings == ApplyOptions(ZeroOptions, opts, 1).envBindings

\* the bindings the merged file declares, when WithEnvBindKey names its section
DeclaredBindings ==
    IF HasOption(opts, "WithEnvBindKey") /\ FileMerged
    THEN {b \in {[e |-> E_Y, q |-> P_n]} : (K_e \o <<".">> \o b.e) \in DOMAIN MergedData}
    ELSE {}

\* the name the prefix derives for a path
PrefixName(q) == E_PREFIX \o [i \in 1..Len(q) |->
                    IF q[i] \in {".", "-"} THEN "_" ELSE UpperChar(q[i])]

(***************************************************************************)
(* C1 (as amended): when Load returns a value, its value at every leaf     *)
(* path is, decoded to the field's type: the value of the flag the user    *)
(* set for the path; else the value of a variable that the binding table   *)
(* binds to the path and that is set to a non-empty value; else the value  *)
(* the merged file declares; else the default.  The table holds the        *)
(* prefix-derived binding of a path only when no explicit or file-declared *)
(* binding claims the path, whether or not the claiming variable is set.   *)
(***************************************************************************)
C1_Sources(q) ==
    IF FlagGiven(q) THEN {FlagGivenValue(q)}
    ELSE IF LiveVars(options.envBindings, q) # {}
         THEN {Str(env[e]) : e \in LiveVars(options.envBindings, q)}
    ELSE IF FileMerged /\ q \in DOMAIN MergedData THEN {MergedData[q]}
    ELSE {DefaultCfg[q]}

C1_PrefixOnlyUnclaimed ==
    \A q \in LeafPaths :
        LET name == PrefixName(q)
            claimed == \/ \E e \in DOMAIN CallerBindings : CallerBindings[e] = q
                       \/ \E b \in DeclaredBindings : b.q = q
        IN  /\ claimed /\ name \notin DOMAIN CallerBindings
                 => ~(name \in DOMAIN options.envBindings /\ options.envBindings[name] = q)
            /\ ~claimed /\ HasOption(opts, "WithEnvPrefix")
                 => name \in DOMAIN options.envBindings /\ options.envBindings[name] = q

C1_StatedSources(q) ==
    LET explicit == {e \in DOMAIN CallerBindings : CallerBindings[e] = q /\ NonEmptyVar(e)}
                    \cup {b.e : b \in {d \in DeclaredBindings : d.q = q /\ NonEmptyVar(d.e)}}
    IN  IF FlagGiven(q) THEN {FlagGivenValue(q)}
        ELSE IF explicit # {} THEN {Str(env[e]) : e \in explicit}
        ELSE IF HasOption(opts, "WithEnvPrefix") /\ NonEmptyVar(PrefixName(q))
             THEN {Str(env[PrefixName(q)])}
        ELSE IF FileMerged /\ q \in DOMAIN MergedData THEN {MergedData[q]}
        ELSE {DefaultCfg[q]}

C2_Frame(written) ==
    /\ DOMAIN k' = DOMAIN k \cup written
    /\ \A q \in DOMAIN k \ written : k'[q] = k[q]

C2_FileStep ==
    pc = "file" /\ loaded' # loaded =>
        LET path == Candidates[idx]
            data == FileData(fs[path], path)
        IN  /\ C2_Frame(DOMAIN data)
            /\ \A q \in DOMAIN data : k'[q] = data[q]

C2_EnvStep ==
    pc = "env" /\ pc' = "cli" =>
        LET written == {q \in Values(options.envBindings) : LiveVars(options.envBindings, q) # {}}
        IN  /\ C2_Frame(written)
            /\ \A q \in written :
                   \E e \in LiveVars(options.envBindings, q) : k'[q] = Str(env[e])

C2_FlagStep ==
    pc = "cli" /\ pc' = "unmarshal" =>
        LET written == {q \in LeafPaths : FlagGiven(q)}
        IN  /\ C2_Frame(written)
            /\ \A q \in written : k'[q] = FlagGivenValue(q)

C2_StepsWriteOnlyTheirPaths == [][C2_FileStep /\ C2_EnvStep /\ C2_FlagStep]_vars

\* a file that declares n alone was merged: n holds the file's value and p
\* and c.s-p still hold their defaults
C2_Witness ==
    /\ pc = "envbind"
    /\ FileMerged /\ fs[loaded[1]] = "partial"
    /\ k[P_n] = MergedData[P_n] /\ k[P_n] # DefaultCfg[P_n]
    /\ k[P_p] = DefaultCfg[P_p]
    /\ k[P_csp] = DefaultCfg[P_csp]

(***************************************************************************)
(* C3: when the first candidate file that exists does not parse, Load      *)
(* returns an error and no value, and reads no further candidate.          *)
(***************************************************************************)
\* the index of the first candidate that exists, 0 when none does
FirstExisting ==
    LET there == {i \in 1..Len(Candidates) : fs[Candidates[i]] # "missing"}
    IN  IF there = {} THEN 0 ELSE CHOOSE i \in there : \A j \in there : i <= j

C3_ParseErrorAborts ==
    pc = "done" /\ FirstExisting # 0 /\ fs[Candidates[FirstExisting]] = "bad" =>
        /\ err # ""
        /\ cfg = <<>>
        /\ Len(reads) = FirstExisting

(***************************************************************************)
(* C4: when no candidate file exists, Load returns an error only when the  *)
(* final unmarshal rejects a value that a set environment variable         *)
(* supplies; otherwise it returns no error and a value that equals the     *)
(* default at every path that no variable and no flag overrides; without   *)
(* set variables and flags it returns the default value exactly.           *)
(***************************************************************************)
NoFileExists == FirstExisting = 0

Overridden(q) == FlagGiven(q) \/ LiveVars(options.envBindings, q) # {}

\* a variable bound to the path is set to a value the field cannot take
Undecodable(q) ==
    \E e \in LiveVars(options.envBindings, q) : Decode(LeafKind(q), Str(env[e])) = DecodeError

C4_NoFileIsNoError ==
    pc = "done" /\ NoFileExists =>
        /\ err # "" => \E q \in LeafPaths : ~FlagGiven(q) /\ Undecodable(q)
        /\ err = "" => \A q \in LeafPaths : ~Overridden(q) => cfg[q] = DefaultCfg[q]
        /\ (\A e \in EnvNames : env[e] = NoVar) /\ cmd.set = {}
               => err = "" /\ cfg = DefaultCfg

\* C4 as stated: without a file Load returns no error
C4_NoFileNeverAnError ==
    pc = "done" /\ NoFileExists =>
        /\ err = ""
        /\ \A q \in LeafPaths : ~Overridden(q) => cfg[q] = DefaultCfg[q]

\* two candidates, both missing, both tried: the defaults come back
C4_Witness ==
    /\ pc = "done" /\ NoFileExists
    /\ Len(Candidates) = 2 /\ reads = Candidates
    /\ \A e \in EnvNames : env[e] = NoVar
    /\ err = "" /\ cfg = DefaultCfg

(***************************************************************************)
(* C5: Load tries the candidates in list order and stops at the first one  *)
(* that loads: at most one file is merged, every candidate tried before it *)
(* failed to load, and none after it is read.                              *)
(***************************************************************************)
C5_FirstLoadableOnly ==
    pc # "start" =>
        /\ Len(reads) <= Len(Candidates)
        /\ reads = SubSeq(Candidates, 1, Len(reads))
        /\ Len(loaded) <= 1
        /\ FileMerged =>
               /\ loaded[1] = reads[Len(reads)]
               /\ \A i \in 1..(Len(reads) - 1) : ~FileLoads(fs[reads[i]])
        /\ pc # "file" /\ ~FileMerged => reads = Candidates
        /\ \A q \in DOMAIN k :
               k[q].k = "str" /\ k[q].s # <<>> /\ k[q].s[1] \in {"f", "F"}
                   => FileMerged /\ k[q].s[2] = FileTag(loaded[1])

\* both candidates exist and load; the first alone was read and merged
C5_Witness ==
    /\ pc = "done" /\ err = ""
    /\ Len(Candidates) = 2
    /\ FileLoads(fs[Candidates[1]]) /\ FileLoads(fs[Candidates[2]])
    /\ reads = <<Candidates[1]>> /\ loaded = <<Candidates[1]>>
    /\ cfg[P_n].s[2] = FileTag(Candidates[1])

(***************************************************************************)
(* C6: the flag step keeps the store at every leaf path whose flag is      *)
(* defined and was not set by the user, whatever the flag's default.       *)
(***************************************************************************)
FlagDefined(q) == KebabOf(q) \in FlagNames \/ q \in FlagNames

C6_UnsetFlagsKeepStore ==
    [][pc = "cli" =>
          \A q \in LeafPaths :
              FlagDefined(q) /\ KebabOf(q) \notin cmd.set /\ q \notin cmd.set
                  => q \in DOMAIN k' /\ k'[q] = k[q]]_vars

\* the user set the flag of p alone; n keeps the file's value, which differs
\* from the default of n's flag
C6_Witness ==
    /\ pc = "unmarshal"
    /\ HasOption(opts, "WithCommand") /\ cmd.set = {G_p}
    /\ FileMerged /\ k[P_n] = MergedData[P_n]
    /\ k[P_n] # Str(FlagDefault(G_n))
    /\ k[P_p] = IntV(5)

(***************************************************************************)
(* C7: a second call of Load with the same arguments, environment and      *)
(* flags returns what the first call returned.                             *)
(***************************************************************************)
C7_Idempotent ==
    round = 2 /\ pc = "done" => cfg = prev.cfg /\ err = prev.err

(***************************************************************************)
(* C8: when the expansion of the template in the text of the first         *)
(* candidate file that exists fails, Load returns an error that names the  *)
(* template expansion, and no value.                                       *)
(***************************************************************************)
ErrExpandTemplate == "expand template"

C8_ExpansionFailureAborts ==
    pc = "done" /\ FirstExisting # 0
        /\ ExpandTemplate(FileActions(fs[Candidates[FirstExisting]]), env).err # ""
    => err = ErrExpandTemplate /\ cfg = <<>>

(***************************************************************************)
(* C9: {{env NAME}} expands to the variable's value, and to nothing when    *)
(* the variable is unset; {{env NAME FALLBACK}} expands to the variable's   *)
(* value when the variable is set to a non-empty value, and to the fallback *)
(* when it is unset or set to the empty string.                             *)
(***************************************************************************)
InText(lexemes) == <<"k", "=", LeftDelim>> \o lexemes \o <<RightDelim>>

Expanded(to) == [s |-> <<"k", "=">> \o to, err |-> ""]

C9_EnvFallbackWhenUnsetOrEmpty ==
    pc = "expanded" =>
        \A name \in DOMAIN StringLits :
            LET var == StringLits[name]
                live == var \in EnvNames /\ NonEmptyVar(var)
            IN  /\ text = InText(<<"env", name>>)
                       => result = Expanded(IF var \in EnvNames /\ env[var] # NoVar
                                            THEN env[var] ELSE <<>>)
                /\ \A fb \in DOMAIN StringLits :
                       text = InText(<<"env", name, fb>>)
                           => result = Expanded(IF live THEN env[var] ELSE StringLits[fb])

\* C9 as stated: the fallback is returned only when the variable is unset
C9_EnvFallbackOnlyWhenUnset ==
    pc = "expanded" =>
        \A name \in DOMAIN StringLits, fb \in DOMAIN StringLits :
            LET var == StringLits[name]
            IN  text = InText(<<"env", name, fb>>)
                    => result = Expanded(IF var \in EnvNames /\ env[var] # NoVar
                                         THEN env[var] ELSE StringLits[fb])

\* X is set to the empty string and {{env "X" "b"}} expanded to b
C9_Witness ==
    /\ pc = "expanded"
    /\ text = InText(<<"env", "\"X\"", "\"b\"">>)
    /\ env[E_X] = <<>>
    /\ result = Expanded(<<"b">>)

(***************************************************************************)
(* C10: {{coalesce A1 .. An}} expands without error to the first operand,   *)
(* left to right, that is neither the empty string nor undefined, and to    *)
(* "<no value>" when every operand is empty or undefined.                   *)
(***************************************************************************)
\* what an operand denotes: a string, or nothing (def = FALSE)
Defined(str) == [def |-> TRUE, s |-> str]

Undefined == [def |-> FALSE, s |-> <<>>]

AtomMeaning(a) ==
    CASE a = <<"\"\"">> -> Defined(<<>>)
      [] a = <<"\"a\"">> -> Defined(<<"a">>)
      [] a = <<".X">> -> IF env[E_X] = NoVar THEN Undefined ELSE Defined(env[E_X])
      [] a = <<".M">> -> Undefined
      [] a = <<"(", "env", "\"X\"", ")">> ->
            Defined(IF env[E_X] = NoVar THEN <<>> ELSE env[E_X])
      [] OTHER -> Defined(IF env[E_Y] = NoVar THEN <<"b">> ELSE env[E_Y])

RECURSIVE SplitAtoms(_)

\* the operands written in a list of lexemes
SplitAtoms(t) ==
    IF t = <<>> THEN <<>>
    ELSE IF t[1] = "("
         THEN LET j == CHOOSE i \in 1..Len(t) : t[i] = ")" /\ \A h \in 1..(i - 1) : t[h] # ")"
              IN  <<SubSeq(t, 1, j)>> \o SplitAtoms(SubSeq(t, j + 1, Len(t)))
    ELSE <<SubSeq(t, 1, 1)>> \o SplitAtoms(Tail(t))

\* the text is k={{coalesce A1 .. An}}, each Ai one of Atoms
IsCoalesceText ==
    /\ Len(text) >= 5
    /\ SubSeq(text, 1, 4) = <<"k", "=", LeftDelim, "coalesce">>
    /\ text[Len(text)] = RightDelim
    /\ text \in Texts
    /\ \A a \in Range(SplitAtoms(SubSeq(text, 5, Len(text) - 1))) : a \in Atoms

CoalesceOperands == SplitAtoms(SubSeq(text, 5, Len(text) - 1))

C10_CoalesceFirstNonEmpty ==
    pc = "expanded" /\ IsCoalesceText =>
        LET ops == CoalesceOperands
            full == {i \in 1..Len(ops) : AtomMeaning(ops[i]).def /\ AtomMeaning(ops[i]).s # <<>>}
        IN  result = Expanded(IF full = {} THEN NoValue
                              ELSE AtomMeaning(ops[CHOOSE i \in full : \A j \in full : i <= j]).s)

\* X is unset and {{coalesce "" .M (env "X")}} expanded to <no value>
C10_Witness ==
    /\ pc = "expanded"
    /\ text = InText(<<"coalesce", "\"\"", ".M", "(", "env", "\"X\"", ")">>)
    /\ env[E_X] = NoVar
    /\ result = [s |-> <<"k", "=", "<no value>">>, err |-> ""]

(***************************************************************************)
(* C11: {{default F V}} and {{V | default F}} expand to V, unless V is the  *)
(* empty string or undefined: then they expand to F.  V is an operand or,   *)
(* in the pipeline, a call of env; an unset .NAME and an env lookup of an   *)
(* unset variable piped through default yield F.                            *)
(***************************************************************************)
\* what an action writes for what its value denotes
Written(m) == IF m.def THEN m.s ELSE NoValue

\* the calls of env with literal arguments, and what each denotes
LiteralEnvCalls ==
    {c \in EnvCalls : Len(c) >= 2 /\ \A i \in 2..Len(c) : c[i] \in DOMAIN StringLits}

EnvCallMeaning(c) ==
    LET var == StringLits[c[2]]
    IN  Defined(IF var \in EnvNames /\ NonEmptyVar(var) THEN env[var]
                ELSE IF Len(c) > 2 THEN StringLits[c[3]]
                ELSE <<>>)

\* default(fallback, value) on what the two denote
DefaultOf(f, v) == IF v.def /\ v.s # <<>> THEN v ELSE f

C11_DefaultReplacesEmptyAndUndefined ==
    pc = "expanded" =>
        /\ \A f \in Atoms, v \in Atoms :
               /\ text = InText(<<"default">> \o f \o v)
                      => result = Expanded(Written(DefaultOf(AtomMeaning(f), AtomMeaning(v))))
               /\ text = InText(v \o <<"|", "default">> \o f)
                      => result = Expanded(Written(DefaultOf(AtomMeaning(f), AtomMeaning(v))))
        /\ \A f \in Atoms, c \in LiteralEnvCalls :
               text = InText(c \o <<"|", "default">> \o f)
                   => result = Expanded(Written(DefaultOf(AtomMeaning(f), EnvCallMeaning(c))))

\* .M is unset and {{.M | default "a"}} expanded to a
C11_Witness ==
    /\ pc = "expanded"
    /\ text = InText(<<".M", "|", "default", "\"a\"">>)
    /\ result = Expanded(<<"a">>)

(***************************************************************************)
(* C12: {{.NAME}} expands without error to the value of the variable NAME   *)
(* when the variable is set, and to "<no value>" when it is unset.          *)
(***************************************************************************)
C12_DirectReference ==
    pc = "expanded" =>
        \A r \in DOMAIN FieldRefs :
            LET var == FieldRefs[r]
            IN  text = InText(<<r>>)
                    => result = Expanded(IF var \in EnvNames /\ env[var] # NoVar
                                         THEN env[var] ELSE NoValue)

\* X is unset and {{.X}} expanded to <no value>
C12_Witness ==
    /\ pc = "expanded"
    /\ text = InText(<<".X">>)
    /\ env[E_X] = NoVar
    /\ result = [s |-> <<"k", "=", "<no value>">>, err |-> ""]

(***************************************************************************)
(* C13: a template that parses, calls env, default and coalesce with the   *)
(* documented numbers of arguments and gives arguments to nothing else,    *)
(* expands without error, provided every argument of env is a string: a    *)
(* literal, a reference to a set variable, or a call of env.               *)
(***************************************************************************)
\* the documented numbers of arguments
ArityDocumented(name, n) ==
    CASE name = "env" -> n \in {1, 2}
      [] name = "default" -> n = 2
      [] OTHER -> TRUE

RECURSIVE DocumentedPipe(_), DocumentedCmd(_, _)

\* a command calls a function as documented, or is one operand by itself
DocumentedCmd(c, piped) ==
    LET first == c.args[1]
        n == Len(c.args) - 1 + (IF piped THEN 1 ELSE 0)
        sub(o) == /\ o.t = "pipe" => DocumentedPipe(o)
                  /\ o.t = "ident" => ArityDocumented(o.s[1], 0)
    IN  IF first.t = "ident"
        THEN ArityDocumented(first.s[1], n) /\ \A i \in 2..Len(c.args) : sub(c.args[i])
        ELSE Len(c.args) = 1 /\ ~piped /\ sub(first)

DocumentedPipe(p) == \A j \in 1..Len(p.args) : DocumentedCmd(p.args[j], j > 1)

Documented(tree) == \A i \in 1..Len(tree) : tree[i].t = "pipe" => DocumentedPipe(tree[i])

RECURSIVE StringPipe(_), StringsToEnvPipe(_)

\* an operand that is a string in every environment where its variable is set
StringOperand(o) ==
    CASE o.t = "lit" -> TRUE
      [] o.t = "field" -> o.s \in EnvNames /\ env[o.s] # NoVar
      [] o.t = "pipe" -> StringPipe(o)
      [] OTHER -> FALSE

\* a pipeline of one command that is a string operand or a call of env
StringPipe(p) ==
    /\ Len(p.args) = 1
    /\ LET c == p.args[1]
       IN  IF c.args[1].t = "ident" THEN c.args[1].s = <<"env">> ELSE StringOperand(c.args[1])

\* every argument of every call of env in the pipeline is a string
StringsToEnvPipe(p) ==
    \A j \in 1..Len(p.args) :
        LET c == p.args[j]
        IN  /\ \A i \in 1..Len(c.args) : c.args[i].t = "pipe" => StringsToEnvPipe(c.args[i])
            /\ c.args[1] = Node("ident", <<"env">>, <<>>) =>
                   /\ \A i \in 2..Len(c.args) : StringOperand(c.args[i])
                   /\ j > 1 => j = 2 /\ StringPipe(Node("pipe", <<>>, <<p.args[1]>>))

StringsToEnv(tree) == \A i \in 1..Len(tree) : tree[i].t = "pipe" => StringsToEnvPipe(tree[i])

C13_DocumentedCallsOfStringsNeverFail ==
    pc = "expanded" /\ tmpl.err = "" /\ Documented(tmpl.tree) /\ StringsToEnv(tmpl.tree)
        => result.err = ""

\* C13 as stated: a template that parses and calls the functions as
\* documented expands without error in every environment
C13_DocumentedCallsNeverFail ==
    pc = "expanded" /\ tmpl.err = "" /\ Documented(tmpl.tree) => result.err = ""

\* Y is set, and {{env .Y "b"}}, which fails when Y is unset, expanded to b
C13_Witness ==
    /\ pc = "expanded"
    /\ text = InText(<<"env", ".Y", "\"b\"">>)
    /\ env[E_Y] = <<"y">>
    /\ result = Expanded(<<"b">>)

(***************************************************************************)
(* What the claims about key derivation speak of.                          *)
(***************************************************************************)
\* the name the claims give a path under a prefix: the prefix, then the path
\* in upper case with every "." and "-" replaced by "_"
MangledName(x, p) == x \o [i \in 1..Len(p) |-> IF p[i] \in {".", "-"} THEN "_" ELSE UpperChar(p[i])]

\* the bindings have been generated from the derived keys
Generated == pc \in {"decode", "derived"}

\* no key derived after the i-th one mangles to the same name
LastOfItsName(i) ==
    \A j \in (i + 1)..Len(dkeys) : MangledName(dprefix, dkeys[j]) # MangledName(dprefix, dkeys[i])

Decoded == pc = "derived"

\* the path in lower case with every "-" replaced by "."
LowerHyphensToDots(p) == [i \in 1..Len(p) |-> IF p[i] = "-" THEN "." ELSE LowerChar(p[i])]

\* the path in lower case with every "-" and every "_" replaced by "."
LowerHyphensUnderscoresToDots(p) ==
    [i \in 1..Len(p) |-> IF p[i] \in {"-", "_"} THEN "." ELSE LowerChar(p[i])]

(***************************************************************************)
(* C15 (as amended): for every derived path p and prefix x, decoding the   *)
(* mangled name of p under x gives p in lower case with every "-" and      *)
(* every "_" replaced by ".".                                              *)
(***************************************************************************)
C15_RoundTripAmended ==
    Decoded =>
        \A i \in 1..Len(dkeys) :
            ddec[MangledName(dprefix, dkeys[i])] = LowerHyphensUnderscoresToDots(dkeys[i])

(***************************************************************************)
(* C15 (as stated): for every derived path p and prefix x, decoding the    *)
(* mangled name of p under x gives p in lower case with every "-" replaced *)
(* by ".".                                                                 *)
(***************************************************************************)
C15_RoundTripAsStated ==
    Decoded =>
        \A i \in 1..Len(dkeys) :
            ddec[MangledName(dprefix, dkeys[i])] = LowerHyphensToDots(dkeys[i])

\* the name of a path with a hyphen and a nested segment has been decoded
\* under a prefix: T_A_C_B, derived from a.c-b, decodes to a.c.b
C15_Witness ==
    /\ Decoded
    /\ dprefix = <<"T", "_">>
    /\ <<"a", ".", "c", "-", "b">> \in Range(dkeys)
    /\ ddec[<<"T", "_", "A", "_", "C", "_", "B">>] = <<"a", ".", "c", ".", "b">>

\* both derivations have run: from the value and from the zero value of its type
DerivedTwice == pc \in {"generate", "decode", "derived"}

(***************************************************************************)
(* C16: the leaf paths derived for a configuration structure depend only   *)
(* on its type and tags: the derivation from a value and the derivation    *)
(* from the zero value of the same type give the same list of paths.       *)
(***************************************************************************)
C16_KeysDependOnTypeOnly ==
    DerivedTwice => dkeys = dzero

\* a value other than the zero value, of a type with a pointer field and a
\* nested struct, has been derived from and has given paths
C16_Witness ==
    /\ DerivedTwice
    /\ dvalue.content = "set"
    /\ dkeys # <<>>
    /\ dkeys = dzero
    /\ \E i \in 1..Len(TypeOf(dvalue).fields) : TypeOf(dvalue).fields[i].kind = "ptr"
    /\ \E i \in 1..Len(TypeOf(dvalue).fields) : TypeOf(dvalue).fields[i].kind = "struct"

\* the type a field is classified by: a pointer field by its pointee type
Pointee(f) == IF f.kind = "ptr" THEN PtrElem(f) ELSE f

\* a leaf field: one that is no nested structure; a duration and a timestamp
\* are leaves
IsLeafField(f) == Pointee(f).kind # "struct"

\* the chains of tagged fields that end in a leaf, as sequences of field
\* indices from the given field list down
RECURSIVE TaggedLeafChains(_)
TaggedLeafChains(fields) ==
    UNION { IF fields[i].tag = <<>> THEN {}
            ELSE IF IsLeafField(fields[i]) THEN {<<i>>}
            ELSE {<<i>> \o c : c \in TaggedLeafChains(Pointee(fields[i]).fields)}
          : i \in 1..Len(fields) }

\* the path of a chain: the tags along it, joined by "."
RECURSIVE ChainPath(_, _)
ChainPath(fields, c) ==
    IF Len(c) = 1 THEN fields[c[1]].tag
    ELSE fields[c[1]].tag \o <<".">> \o ChainPath(Pointee(fields[c[1]]).fields, Tail(c))

\* the fields of the configuration structure the keys are derived for
TopFields == TypeOf(dvalue).fields

\* the keys have been derived
Derived == pc \in {"collectzero", "generate", "decode", "derived"}

(***************************************************************************)
(* C17: the derived path list contains exactly the leaves reached through  *)
(* chains of tagged fields, each once: an untagged field contributes no    *)
(* path and neither do the fields nested in it, and a duration or          *)
(* timestamp field contributes exactly one path.                           *)
(***************************************************************************)
C17_ExactlyTheTaggedLeaves ==
    Derived =>
        /\ Range(dkeys) = {ChainPath(TopFields, c) : c \in TaggedLeafChains(TopFields)}
        /\ Len(dkeys) = Cardinality(TaggedLeafChains(TopFields))

\* the store holds, at the path of an integer field, a string that is no number
HoldsIncompatible(q) ==
    /\ LeafKind(q) = "int"
    /\ q \in DOMAIN k
    /\ k[q].k = "str"
    /\ \E j \in 1..Len(k[q].s) : ~IsDigit(k[q].s[j])

(***************************************************************************)
(* C18: when the merged store holds a value incompatible with the type of  *)
(* its field (a string that is no number at the path of an integer field), *)
(* Load returns the wrapped unmarshal error and no configuration value.    *)
(***************************************************************************)
C18_IncompatibleValueAborts ==
    pc = "done" /\ (\E q \in LeafPaths : HoldsIncompatible(q)) =>
        /\ err = "failed to unmarshal config"
        /\ cfg = <<>>

\* the variable T_P, bound to the integer field p by the prefix, is set to z;
\* Load wrote it into the store and has returned the error
C18_Witness ==
    /\ pc = "done"
    /\ env[E_TP] = <<"z">>
    /\ E_TP \in DOMAIN options.envBindings
    /\ k[P_p] = Str(<<"z">>)
    /\ err = "failed to unmarshal config"
    /\ cfg = <<>>

(***************************************************************************)
(* What the claim about key validation speaks of.                          *)
(***************************************************************************)
\* ValidateKeys has returned
Validated == pc = "finished"

\* both files are read and compared
Comparable == vfiles.root /\ vfiles.example.state = "ok" /\ vfiles.config.state = "ok"

\* no key is reported twice
ReportedOnce(report) == \A i, j \in 1..Len(report) : report[i] = report[j] => i = j

(***************************************************************************)
(* C19: when ValidateKeys compares the two files, the keys it reports are  *)
(* exactly the keys of the configuration file that are not keys of the     *)
(* example file, each once, and the test passes exactly when there is no   *)
(* such key; when the configuration file is missing the test is skipped:   *)
(* it neither passes nor fails, and it reports nothing.                    *)
(***************************************************************************)
C19_ReportsExactlyTheUnknownKeys ==
    Validated =>
        /\ Comparable =>
              /\ Range(vtest.errors) = vfiles.config.keys \ vfiles.example.keys
              /\ ReportedOnce(vtest.errors)
              /\ vtest.outcome = IF vfiles.config.keys \subseteq vfiles.example.keys
                                 THEN "passed" ELSE "failed"
        /\ vfiles.root /\ vfiles.config.state = "missing" =>
              /\ vtest.outcome = "skipped"
              /\ vtest.errors = <<>>
        /\ vtest.outcome \in {"passed", "failed"} => Comparable

\* the configuration file declares a, c and d, the example a and a.b: the
\* helper has reported c and d
C19_Witness ==
    /\ Validated
    /\ vfiles.example = FileOf("ok", {<<"a">>, <<"a", ".", "b">>})
    /\ vfiles.config = FileOf("ok", {<<"a">>, <<"c">>, <<"d">>})
    /\ vtest.errors = << <<"c">>, <<"d">> >>
    /\ vtest.outcome = "failed"

(***************************************************************************)
(* What the claim about concurrent calls speaks of.                        *)
(***************************************************************************)
\* the map the caller passed, as it was when the calls began
PassedMap(optList) ==
    IF \E i \in 1..Len(optList) : optList[i].op = "WithEnvBindings"
    THEN (CHOOSE o \in Range(optList) : o.op = "WithEnvBindings").b
    ELSE <<>>

\* what a set of calls in their states may come to by one step each
AfterAll(S, step(_)) == UNION {step(s) : s \in S}

\* what Load may return for the option list when no other call runs: the
\* steps of the call, one after the other, on a heap of its own
AloneResults(optList, callerMap, self) ==
    LET S0 == {[l |-> NewCall(optList), h |-> (CallerRef :> callerMap)]}
        S1 == AfterAll(S0, LAMBDA s : stepOptions(s, self))
        S2 == AfterAll(S1, LAMBDA s : stepFile(s, fs))
        S3 == AfterAll(S2, LAMBDA s : stepEnvBindKey(s, self))
        S4 == AfterAll(S3, LAMBDA s : stepAutoBindings(s, self))
        S5 == AfterAll(S4, LAMBDA s : stepEnv(s, env))
        S6 == AfterAll(S5, LAMBDA s : stepUnmarshal(s))
    IN  {[cfg |-> s.l.cfg, err |-> s.l.err] : s \in S6}

\* the map the caller passed to the calls of this run
CallerMap == CHOOSE m \in CallerMaps : \A c \in CallIds :
                 PassedMap(calls[c].opts) \in {<<>>, m}

(***************************************************************************)
(* C20: two concurrent calls of Load share no mutable state.  In every     *)
(* state of every interleaving, the binding table of a call is a map the   *)
(* call made itself (or nil), the map the caller passed is as the caller   *)
(* made it, and a call that has returned has returned a result that Load   *)
(* returns for its options when it runs alone; also when both calls are    *)
(* given the same option values.                                           *)
(***************************************************************************)
C20_ConcurrentCallsAreIndependent ==
    pc = "concurrent" =>
        /\ \A c \in CallIds : calls[c].options.envBindings \in {NilMap, CallRef(c)}
        /\ heap[CallerRef] \in CallerMaps
        /\ \A c \in CallIds : PassedMap(calls[c].opts) \in {<<>>, heap[CallerRef]}
        /\ \A c \in CallIds :
               calls[c].pc = "done" =>
                   [cfg |-> calls[c].cfg, err |-> calls[c].err]
                       \in AloneResults(calls[c].opts, CallerMap, CallRef(c))

\* two calls with the same options, among them WithEnvBindings of one map and
\* WithEnvBindKey, have both returned after the file declared a binding; each
\* made a binding table of its own with the declared binding in it
C20_Witness ==
    /\ pc = "concurrent"
    /\ calls[1].opts = calls[2].opts
    /\ \E i \in 1..Len(calls[1].opts) : calls[1].opts[i].op = "WithEnvBindings"
    /\ heap[CallerRef] = (E_X :> P_p)
    /\ calls[1].pc = "done" /\ calls[2].pc = "done"
    /\ calls[1].options.envBindings = CallRef(1) /\ calls[2].options.envBindings = CallRef(2)
    /\ E_Y \in DOMAIN heap[CallRef(1)] /\ E_Y \in DOMAIN heap[CallRef(2)]
    /\ calls[1].cfg = calls[2].cfg /\ calls[1].cfg # <<>>

\* Load has built its binding table
TableBuilt == pc \in {"env", "cli", "unmarshal", "done"}

\* the explicit binding of the variable to the path is in the table
ExplicitEntry(e, q) == e \in DOMAIN CallerBindings /\ CallerBindings[e] = q

\* the paths an explicit binding claims
ExplicitPaths == Values(CallerBindings)

\* the paths a file-declared binding claims
DeclaredPaths == {b.q : b \in DeclaredBindings}

Other(c) == 3 - c

\* what the call returned
Returns(c) == [cfg |-> calls[c].cfg, err |-> calls[c].err]

\* the call was given WithEnvPrefix, WithEnvBindKey and an explicit binding
AllThreeGiven(c) ==
    /\ \E i \in 1..Len(calls[c].opts) : calls[c].opts[i].op = "WithEnvPrefix"
    /\ \E i \in 1..Len(calls[c].opts) : calls[c].opts[i].op = "WithEnvBindKey"
    /\ \E i \in 1..Len(calls[c].opts) : calls[c].opts[i].op \in {"WithEnvBinding", "WithEnvBindings"}

\* the names the lower sources bind: the prefix-derived names and the name the
\* file declares
LowerNames == {PrefixName(q) : q \in LeafPaths} \cup {E_Y}

KeyGiven(c) == \E i \in 1..Len(calls[c].opts) : calls[c].opts[i].op = "WithEnvBindKey"

\* the file the call loaded declares something at or under the key
SectionInFile == \E q \in DOMAIN FileData(fs[CandName(1)], CandName(1)) : Under(K_e, q)

\* the call is past the step that reads the declared bindings
PastEnvBindKey(c) == calls[c].pc \in {"autobind", "env", "unmarshal", "done"}

(***************************************************************************)
(* C23: whenever WithEnvBindKey is given and the loaded store holds a      *)
(* section at that key, the section is removed from the store before the   *)
(* unmarshalling, whatever the section holds: the store holds nothing at   *)
(* or under the key from then on.                                          *)
(***************************************************************************)
C23_SectionAlwaysRemoved ==
    pc = "concurrent" =>
        \A c \in CallIds :
            KeyGiven(c) /\ SectionInFile /\ PastEnvBindKey(c) =>
                \A q \in DOMAIN calls[c].k : ~Under(K_e, q)

(***************************************************************************)
(* C24: the step that applies the binding table changes the store only at  *)
(* a path bound to a variable that is set to a non-empty value, and writes *)
(* the value of such a variable there: a binding whose variable is unset   *)
(* or set to the empty string changes nothing, and the value from the file *)
(* or the defaults stays.                                                  *)
(***************************************************************************)
C24_OnlyNonEmptyVariablesWrite ==
    [][pc = "env" =>
          /\ DOMAIN k \subseteq DOMAIN k'
          /\ \A q \in DOMAIN k' :
                 \/ q \in DOMAIN k /\ k'[q] = k[q]
                 \/ \E e \in LiveVars(options.envBindings, q) : k'[q] = Str(env[e])]_vars

\* X is bound to n and set to the empty string, the file declares n: after
\* the table was applied the store holds the file's value of n
C24_Witness ==
    /\ pc = "cli"
    /\ E_X \in DOMAIN options.envBindings /\ options.envBindings[E_X] = P_n
    /\ env[E_X] = <<>>
    /\ FileMerged
    /\ k[P_n] = MergedData[P_n]

\* the typed value of what the user typed for a flag of the path
TypedFlagArg(q, flag) ==
    IF LeafKind(q) = "int" THEN IntV(ParseDigits(FlagArg(flag), 1, 0)) ELSE Str(FlagArg(flag))

(***************************************************************************)
(* C25: for a configuration path, flag detection returns the kebab form    *)
(* (every "." replaced by "-") when the user set it, otherwise the dot     *)
(* form (the path itself) when the user set it, otherwise "not set"; the   *)
(* CLI step writes the value of the detected flag, so the kebab form's     *)
(* value when both forms are set, and leaves the path alone when neither   *)
(* is set.                                                                 *)
(***************************************************************************)
C25_KebabThenDot ==
    [][pc = "cli" /\ options.cmd =>
          \A q \in LeafPaths :
              /\ KebabOf(q) \in cmd.set =>
                     /\ detectCLIFlag(cmd, q) = [flag |-> KebabOf(q), isSet |-> TRUE]
                     /\ k'[q] = TypedFlagArg(q, KebabOf(q))
              /\ KebabOf(q) \notin cmd.set /\ q \in cmd.set =>
                     /\ detectCLIFlag(cmd, q) = [flag |-> q, isSet |-> TRUE]
                     /\ k'[q] = TypedFlagArg(q, q)
              /\ KebabOf(q) \notin cmd.set /\ q \notin cmd.set =>
                     /\ ~detectCLIFlag(cmd, q).isSet
                     /\ k'[q] = k[q]]_vars

\* the user set both c-s-p and c.s-p: the store holds the value of c-s-p
C25_Witness ==
    /\ pc = "unmarshal"
    /\ options.cmd
    /\ cmd.set = {G_csp_kebab, G_csp_dot}
    /\ FlagArg(G_csp_kebab) # FlagArg(G_csp_dot)
    /\ k[P_csp] = Str(FlagArg(G_csp_kebab))

\* the field, a pointer to a struct taken as the struct itself
AsPointee(f) == IF f.kind = "ptr" THEN Struct(f.tag, f.fields) ELSE f

\* the type with every pointer-to-struct field replaced by a field of the
\* struct type
WithStructFields(typ) == [typ EXCEPT !.fields = [i \in 1..Len(typ.fields) |-> AsPointee(typ.fields[i])]]

(***************************************************************************)
(* C26: in key derivation a field of type pointer-to-struct is descended   *)
(* into: the keys derived for a type are the keys derived for the type     *)
(* whose pointer-to-struct fields are fields of the struct type itself.    *)
(***************************************************************************)
C26_PointerFieldsDescended ==
    Derived => dkeys = collectKoanfKeysRecursive(WithStructFields(TypeOf(dvalue)), <<>>)

\* the indices of the derived paths that mangle to the name of the i-th one
SameName(i) ==
    {j \in 1..Len(dkeys) : MangledName(dprefix, dkeys[j]) = MangledName(dprefix, dkeys[i])}

\* the last of them in derivation order
LastSameName(i) == CHOOSE j \in SameName(i) : \A h \in SameName(i) : h <= j

(***************************************************************************)
(* C27: when several derived paths mangle to one environment name, the     *)
(* generated table binds the name to exactly one of them, the one derived  *)
(* last, and no name of the table is bound to any of the other paths.      *)
(***************************************************************************)
C27_LastCollidingPathWins ==
    Generated =>
        \A i \in 1..Len(dkeys) :
            /\ dbind[MangledName(dprefix, dkeys[i])] = dkeys[LastSameName(i)]
            /\ dkeys[i] # dkeys[LastSameName(i)] => dkeys[i] \notin Values(dbind)

\* a.b is derived before a-b; both mangle to T_A_B, which is bound to a-b,
\* and nothing is bound to a.b
C27_Witness ==
    /\ Generated
    /\ dprefix = <<"T", "_">>
    /\ dkeys = << <<"a", ".", "b">>, <<"a", "-", "b">> >>
    /\ dbind = (<<"T", "_", "A", "_", "B">> :> <<"a", "-", "b">>)

\* the flag step has ended, by returning or by panicking
FlagStepOver == pc \in {"flagdone", "flagpanic"}

(***************************************************************************)
(* C28: for every type Load accepts, a pointer to a struct included, the   *)
(* flag step runs to its end and the leaf paths it examines are the paths  *)
(* the key derivation returns for the same default value.                  *)
(***************************************************************************)
C28_FlagStepExaminesDerivedPaths ==
    FlagStepOver => pc = "flagdone" /\ dexam = dkeys

\* for the struct types, the flag step examines the derived paths in order
FlagStepOfStructExaminesDerivedPaths == pc = "flagdone" => dexam = dkeys

\* the field types the flag step has no case for: slices of uint, uint8,
\* uint64 and bool, and maps other than map[string]string
NoDecoderFor(f) ==
    \/ f.kind = "slice" /\ f.elem \in {"uint", "uint8", "uint64", "bool"}
    \/ f.kind = "map" /\ ~(f.key = "string" /\ f.elem = "string")

\* the tagged fields of a list that are no struct, with their full paths
RECURSIVE LeafFieldsAt(_, _)
LeafFieldsAt(fields, prefix) ==
    UNION {LET f == fields[i]
               q == IF prefix # <<>> THEN prefix \o <<".">> \o f.tag ELSE f.tag
           IN  IF f.tag = <<>> THEN {}
               ELSE IF f.kind = "struct" THEN LeafFieldsAt(f.fields, q)
               ELSE {[path |-> q, field |-> f]} : i \in 1..Len(fields)}

\* the leaves without a decoder for which the user set a flag
FlaggedWithoutDecoder ==
    {l \in LeafFieldsAt(TypeOf(dvalue).fields, <<>>) :
        NoDecoderFor(l.field) /\ (IsSet(cmd, l.path) \/ IsSet(cmd, KebabOf(l.path)))}

(***************************************************************************)
(* C29: when the user set a flag for a leaf whose type is a slice of uint, *)
(* uint8, uint64 or bool, or a map other than map[string]string, the flag  *)
(* step leaves the store at that leaf as it was and reports no error; when *)
(* no other flag is set, the whole store stays as it was.                  *)
(***************************************************************************)
C29_NoDecoderNoWrite ==
    [][(pc = "flagcli" /\ pc' = "flagdone") =>
           /\ err' = ""
           /\ \A l \in FlaggedWithoutDecoder :
                  /\ l.path \in DOMAIN k' <=> l.path \in DOMAIN k
                  /\ l.path \in DOMAIN k => k'[l.path] = k[l.path]
           /\ (FlaggedWithoutDecoder # {} /\ ~IsSet(cmd, F_w)) => k' = k]_vars

\* the user set --v for a field V []uint, the store holds the default of v
C29_Witness ==
    /\ pc = "flagdone"
    /\ TypeOf(dvalue) = Struct(<<>>, <<SliceOf(F_v, "uint")>>)
    /\ IsSet(cmd, F_v)
    /\ dexam = <<F_v>>
    /\ k = (F_v :> Str(<<"d">>))
    /\ err = ""

\* the variables the table binds to a path
VarsOf(q) == {e \in DOMAIN options.envBindings : options.envBindings[e] = q}

(***************************************************************************)
(* C30: in the binding table Load ends up with, every path that no         *)
(* explicit binding targets is the target of at most one variable.         *)
(***************************************************************************)
C30_OneVariablePerUnclaimedPath ==
    TableBuilt =>
        \A q \in Values(options.envBindings) \ ExplicitPaths : Cardinality(VarsOf(q)) <= 1

\* the file declares X and Y for n, the prefix derives T_N for n, no explicit
\* binding targets n: the table binds X alone to n
C30_Witness ==
    /\ TableBuilt
    /\ fs[CandName(1)] = "twovars"
    /\ HasOption(opts, "WithEnvBindKey")
    /\ HasOption(opts, "WithEnvPrefix")
    /\ P_n \notin ExplicitPaths
    /\ VarsOf(P_n) = {E_X}

====
